---- MODULE Spec2Model ----
(***************************************************************************)
(* Model of the grading core of checker-api (src/src/services/grader.js):  *)
(* parseGradingResponse / repairTruncatedJson (character level),           *)
(* validateAndClampResults (JavaScript value level) and the                *)
(* gradeSubmission retry pipeline, alone and as concurrent invocations of  *)
(* one process, and of the batch route of src/src/routes/grading.js.       *)
(*                                                                         *)
(* Texts are sequences of one-character strings.  JavaScript values are    *)
(* records of one uniform shape (see JV).  Numbers are integers plus NaN;  *)
(* Math.round is computed on exact rationals (round half up, as            *)
(* Math.round does), so a quotient that is an exact tie in the rationals   *)
(* is rounded up even where the double computation would fall one ulp      *)
(* short of the tie.  JSON number literals with a fraction or an exponent  *)
(* are outside the input alphabet.                                         *)
(***************************************************************************)
EXTENDS Integers, Sequences, FiniteSets, TLC

\* ------------------------------------------------------------------------
\* JavaScript values
\* ------------------------------------------------------------------------
\* t  : "undef" | "null" | "true" | "false" | "num" | "nan" | "str" | "arr" | "obj"
\* n  : the integer of a "num"
\* s  : the characters of a "str"
\* ks : own property names, in insertion order ("obj", and named properties of "arr")
\* vs : the property values, parallel to ks
\* es : the elements of an "arr"
JV(t, n, s, ks, vs, es) ==
    [t |-> t, n |-> n, s |-> s, ks |-> ks, vs |-> vs, es |-> es]

JUndef == JV("undef", 0, <<>>, <<>>, <<>>, <<>>)
JNull == JV("null", 0, <<>>, <<>>, <<>>, <<>>)
JTrue == JV("true", 0, <<>>, <<>>, <<>>, <<>>)
JFalse == JV("false", 0, <<>>, <<>>, <<>>, <<>>)
JNaN == JV("nan", 0, <<>>, <<>>, <<>>, <<>>)
JNum(n) == JV("num", n, <<>>, <<>>, <<>>, <<>>)
JStr(s) == JV("str", 0, s, <<>>, <<>>, <<>>)
JArr(es) == JV("arr", 0, <<>>, <<>>, <<>>, es)
JObj(ks, vs) == JV("obj", 0, <<>>, ks, vs, <<>>)

\* typeof x === "number"
IsNumber(x) == x.t \in {"num", "nan"}

\* ToBoolean(x)
Truthy(x) ==
    CASE x.t \in {"undef", "null", "false", "nan"} -> FALSE
      [] x.t = "num" -> x.n # 0
      [] x.t = "str" -> x.s # <<>>
      [] OTHER -> TRUE

IndexOfKey(ks, k) ==
    IF \E i \in 1..Len(ks) : ks[i] = k
    THEN CHOOSE i \in 1..Len(ks) : ks[i] = k
    ELSE 0

\* x.k for x that is neither null nor undefined (those throw a TypeError,
\* which the callers model).  Primitives have none of the properties the
\* code reads, except the length of a string.
GetProp(x, k) ==
    IF x.t \in {"obj", "arr"} /\ IndexOfKey(x.ks, k) # 0
    THEN x.vs[IndexOfKey(x.ks, k)]
    ELSE JUndef

\* x.k = v in sloppy mode: an assignment to a property of a primitive is
\* silently dropped; an existing property keeps its place in the order.
SetProp(x, k, v) ==
    IF x.t \notin {"obj", "arr"} THEN x
    ELSE IF IndexOfKey(x.ks, k) # 0
         THEN [x EXCEPT !.vs[IndexOfKey(x.ks, k)] = v]
         ELSE [x EXCEPT !.ks = Append(@, k), !.vs = Append(x.vs, v)]

\* ------------------------------------------------------------------------
\* JSON.parse on a sequence of characters
\* ------------------------------------------------------------------------
JsonWs == {" ", "\n", "\t", "\r"}
Digits == <<"0", "1", "2", "3", "4", "5", "6", "7", "8", "9">>
DigitSet == {Digits[i] : i \in 1..Len(Digits)}
DigitVal(c) == (CHOOSE i \in 1..Len(Digits) : Digits[i] = c) - 1

PRes(ok, v, p) == [ok |-> ok, v |-> v, p |-> p]
PFail == PRes(FALSE, JUndef, 0)

\* With(e, LAMBDA x : body) is body with x bound to the value of e
With(v, F(_)) == F(v)

\* the least of a non-empty set of integers
Least(S) == CHOOSE x \in S : \A y \in S : x <= y

\* the k-th smallest element of a set of integers
Nth(S, k) == CHOOSE i \in S : Cardinality({x \in S : x < i}) = k - 1

\* the first position >= p that holds no white space (Len(s) + 1 at the end)
SkipWs(s, p) ==
    Least({q \in p..(Len(s) + 1) : q = Len(s) + 1 \/ s[q] \notin JsonWs})

\* the character at position p, or "" past the end
At(s, p) == IF p >= 1 /\ p <= Len(s) THEN s[p] ELSE ""

\* whether the characters of lit stand in s at position p
HasAt(s, p, lit) ==
    /\ p >= 1
    /\ p + Len(lit) - 1 <= Len(s)
    /\ \A i \in 1..Len(lit) : s[p + i - 1] = lit[i]

\* inside a string literal that starts at lo: position q is the second
\* character of an escape sequence, i.e. an odd number of backslashes stands
\* directly before it (counted no further back than lo)
Escaped(s, lo, q) ==
    (q - 1 - Least({i \in (lo - 1)..(q - 1) :
                      \A j \in (i + 1)..(q - 1) : s[j] = "\\"})) % 2 = 1

\* the character an escape sequence \c stands for; \b, \f and \uXXXX are
\* outside the input alphabet
EscapeChars == {"\"", "\\", "/", "n", "t", "r"}
Unescape(c) ==
    CASE c = "n" -> "\n"
      [] c = "t" -> "\t"
      [] c = "r" -> "\r"
      [] OTHER -> c

\* the body p..q-1 of a string literal whose closing quote is at q; esc is
\* the set of escaped positions of the body
StringBody(s, p, q, esc) ==
    With({i \in p..(q - 1) : i \notin esc /\ s[i] # "\\"} \cup esc, LAMBDA kept :
        IF \E i \in esc : s[i] \notin EscapeChars THEN PFail
        ELSE IF \E i \in kept \ esc : s[i] \in {"\n", "\t", "\r"} THEN PFail
        ELSE PRes(TRUE,
                  JStr([k \in 1..Cardinality(kept) |->
                          With(Nth(kept, k), LAMBDA i :
                              IF i \in esc THEN Unescape(s[i]) ELSE s[i])]),
                  q + 1))

\* a string literal, from the character after the opening quote: it ends at
\* the first quote that is not escaped
ParseString(s, p) ==
    With({q \in p..Len(s) : s[q] = "\"" /\ ~Escaped(s, p, q)}, LAMBDA ends :
        IF ends = {} THEN PFail
        ELSE With(Least(ends), LAMBDA q :
                 StringBody(s, p, q, {i \in p..(q - 1) : Escaped(s, p, i)})))

\* the value of the digits at lo..hi
RECURSIVE DigitsValue(_, _, _)
DigitsValue(s, lo, hi) ==
    IF hi < lo THEN 0 ELSE 10 * DigitsValue(s, lo, hi - 1) + DigitVal(s[hi])

\* the digits of a number from q on; -? ( 0 | [1-9][0-9]* )
ParseDigits(s, q, neg) ==
    With(Least({r \in q..(Len(s) + 1) : r = Len(s) + 1 \/ s[r] \notin DigitSet}),
         LAMBDA e :
            IF e = q THEN PFail
            ELSE IF s[q] = "0" /\ e > q + 1 THEN PFail
            ELSE With(DigitsValue(s, q, e - 1), LAMBDA n :
                     PRes(TRUE, JNum(IF neg THEN 0 - n ELSE n), e)))

ParseNumber(s, p) ==
    IF At(s, p) = "-" THEN ParseDigits(s, p + 1, TRUE) ELSE ParseDigits(s, p, FALSE)

RECURSIVE ParseValue(_, _)
RECURSIVE ParseMembers(_, _, _)
RECURSIVE ParseElements(_, _, _)

\* after a member "k": v of an object: a comma, the closing brace, or an error
AfterMember(s, e, obj) ==
    IF At(s, e) = "," THEN ParseMembers(s, e + 1, obj)
    ELSE IF At(s, e) = "}" THEN PRes(TRUE, obj, e + 1)
    ELSE PFail

\* the members of an object, from the position where a key is expected; a
\* repeated key keeps its first place and takes the last value
ParseMembers(s, p, obj) ==
    With(SkipWs(s, p), LAMBDA q :
        IF At(s, q) # "\"" THEN PFail
        ELSE With(ParseString(s, q + 1), LAMBDA k :
            IF ~k.ok THEN PFail
            ELSE With(SkipWs(s, k.p), LAMBDA c :
                IF At(s, c) # ":" THEN PFail
                ELSE With(ParseValue(s, c + 1), LAMBDA v :
                    IF ~v.ok THEN PFail
                    ELSE AfterMember(s, SkipWs(s, v.p), SetProp(obj, k.v.s, v.v))))))

\* after an element of an array
AfterElement(s, e, es) ==
    IF At(s, e) = "," THEN ParseElements(s, e + 1, es)
    ELSE IF At(s, e) = "]" THEN PRes(TRUE, JArr(es), e + 1)
    ELSE PFail

\* the elements of an array, from the position where a value is expected
ParseElements(s, p, es) ==
    With(ParseValue(s, p), LAMBDA v :
        IF ~v.ok THEN PFail
        ELSE AfterElement(s, SkipWs(s, v.p), Append(es, v.v)))

\* a value whose first character is at q
ValueAt(s, q) ==
    With(At(s, q), LAMBDA c :
        IF c = "{" THEN
            With(SkipWs(s, q + 1), LAMBDA r :
                IF At(s, r) = "}" THEN PRes(TRUE, JObj(<<>>, <<>>), r + 1)
                ELSE ParseMembers(s, r, JObj(<<>>, <<>>)))
        ELSE IF c = "[" THEN
            With(SkipWs(s, q + 1), LAMBDA r :
                IF At(s, r) = "]" THEN PRes(TRUE, JArr(<<>>), r + 1)
                ELSE ParseElements(s, r, <<>>))
        ELSE IF c = "\"" THEN ParseString(s, q + 1)
        ELSE IF c = "-" \/ c \in DigitSet THEN ParseNumber(s, q)
        ELSE IF HasAt(s, q, <<"t", "r", "u", "e">>) THEN PRes(TRUE, JTrue, q + 4)
        ELSE IF HasAt(s, q, <<"f", "a", "l", "s", "e">>) THEN PRes(TRUE, JFalse, q + 5)
        ELSE IF HasAt(s, q, <<"n", "u", "l", "l">>) THEN PRes(TRUE, JNull, q + 4)
        ELSE PFail)

ParseValue(s, p) == ValueAt(s, SkipWs(s, p))

\* JSON.parse(s): ok = FALSE stands for the SyntaxError it throws
JsonParse(s) ==
    With(ParseValue(s, 1), LAMBDA r :
        IF r.ok /\ SkipWs(s, r.p) > Len(s) THEN r ELSE PFail)

\* ------------------------------------------------------------------------
\* Texts
\* ------------------------------------------------------------------------
\* String.prototype.trim
TrimLeft(s) == SubSeq(s, SkipWs(s, 1), Len(s))

TrimRight(s) ==
    SubSeq(s, 1, Least({q \in 0..Len(s) : \A r \in (q + 1)..Len(s) : s[r] \in JsonWs}))

Trim(s) == TrimRight(TrimLeft(s))

\* the least position >= from where lit stands in s, or 0
FindSub(s, lit, from) ==
    Least({p \in from..(Len(s) + 1) : p = Len(s) + 1 \/ HasAt(s, p, lit)}) % (Len(s) + 1)

\* s.indexOf(c) and s.lastIndexOf(c), 1-based, 0 for -1
IndexOf(s, c) == FindSub(s, <<c>>, 1)

LastIndexOf(s, c) ==
    Least({p \in 0..Len(s) : \A q \in (p + 1)..Len(s) : s[q] # c})

\* str.replace(/,\s*$/, ""): a comma with nothing but white space after it
StripTrailingComma(s) ==
    With(TrimRight(s), LAMBDA r :
        IF r # <<>> /\ r[Len(r)] = "," THEN SubSeq(r, 1, Len(r) - 1) ELSE s)

\* the backquote character is written BT (the lexer admits no backquote in a string)
BT == "BT"
Fence == <<BT, BT, BT>>
JsonTag == <<"j", "s", "o", "n">>

\* jsonStr.match(/BT BT BT(?:json)?\s*([\s\S]*?)BT BT BT/): the capture of the first
\* fenced block, ok = FALSE when nothing matches
NoMatch == [ok |-> FALSE, inner |-> <<>>]

\* the capture that starts at c, lazily up to the next fence
FenceCapture(s, c) ==
    With(FindSub(s, Fence, c), LAMBDA close :
        IF close = 0 THEN NoMatch
        ELSE [ok |-> TRUE, inner |-> SubSeq(s, c, close - 1)])

\* after the opening fence at a - 3: the optional tag, then white space
FenceOpenAt(s, a) ==
    FenceCapture(s, SkipWs(s, IF HasAt(s, a, JsonTag) THEN a + Len(JsonTag) ELSE a))

FenceMatch(s) ==
    With(FindSub(s, Fence, 1), LAMBDA open :
        IF open = 0 THEN NoMatch ELSE FenceOpenAt(s, open + Len(Fence)))

\* ------------------------------------------------------------------------
\* repairTruncatedJson
\* ------------------------------------------------------------------------
\* str[i] === '"' && (i === 0 || str[i - 1] !== '\\'), with i 1-based
IsToggleQuote(str, i) == str[i] = "\"" /\ (i = 1 \/ str[i - 1] # "\\")

\* the value of the scan flag (inString, inStr) once str[1..i] has been
\* scanned: every toggling quote flips it
InStringAfter(str, i) ==
    Cardinality({j \in 1..i : IsToggleQuote(str, j)}) % 2 = 1

\* the first scan (lines 218-223): inside a string at the end of str
ScanInString(str) == InStringAfter(str, Len(str))

\* the second scan (lines 229-242) counts a character when it is no toggling
\* quote and the flag is off
Counted(str, c) ==
    Cardinality({i \in 1..Len(str) :
                   str[i] = c /\ ~IsToggleQuote(str, i) /\ ~InStringAfter(str, i - 1)})

ScanOpen(str) ==
    [openBraces |-> Counted(str, "{") - Counted(str, "}"),
     openBrackets |-> Counted(str, "[") - Counted(str, "]")]

\* n copies of the character c (none when n <= 0)
Repeat(c, n) == [i \in 1..n |-> c]

\* lines 225-226: close an open string
CloseString(str) == IF ScanInString(str) THEN Append(str, "\"") ELSE str

\* lines 244-250: strip a trailing comma, then close brackets and braces
CloseOpen(str, open) ==
    StripTrailingComma(str)
        \o Repeat("]", open.openBrackets) \o Repeat("}", open.openBraces)

repairTruncatedJson(jsonStr) ==
    With(CloseString(StripTrailingComma(Trim(jsonStr))), LAMBDA str :
        CloseOpen(str, ScanOpen(str)))

\* ------------------------------------------------------------------------
\* parseGradingResponse
\* ------------------------------------------------------------------------
K_parse_error == <<"p", "a", "r", "s", "e", "_", "e", "r", "r", "o", "r">>
K_raw_response == <<"r", "a", "w", "_", "r", "e", "s", "p", "o", "n", "s", "e">>

\* the message is one opaque element: only its truthiness is ever read
ParseErrorMessage ==
    <<"Could not parse model response as JSON. Raw response included.">>

ParseFailure(responseText) ==
    JObj(<<K_raw_response, K_parse_error>>,
         <<JStr(responseText), JStr(ParseErrorMessage)>>)

\* the candidate handed to the two parse attempts
\* lines 266-270: from the first opening brace on
FromFirstBrace(jsonStr) ==
    With(IndexOf(jsonStr, "{"), LAMBDA startIdx :
        IF startIdx # 0 THEN SubSeq(jsonStr, startIdx, Len(jsonStr)) ELSE jsonStr)

\* lines 260-264: the inside of a fenced block when there is one
Unfenced(trimmed) ==
    With(FenceMatch(trimmed), LAMBDA m :
        IF m.ok THEN Trim(m.inner) ELSE trimmed)

Candidate(responseText) == FromFirstBrace(Unfenced(Trim(responseText)))

\* the two parse attempts: ok = FALSE when both JSON.parse calls throw
\* lines 273-279: the first attempt parses up to the last closing brace
Attempt1(jsonStr) ==
    With(LastIndexOf(jsonStr, "}"), LAMBDA endIdx :
        IF endIdx # 0 THEN JsonParse(SubSeq(jsonStr, 1, endIdx)) ELSE PFail)

\* lines 282-287: the second attempt parses the repaired candidate
Attempt2(jsonStr) == JsonParse(repairTruncatedJson(jsonStr))

AttemptsOn(jsonStr) ==
    With(Attempt1(jsonStr), LAMBDA a : IF a.ok THEN a ELSE Attempt2(jsonStr))

ParseAttempts(responseText) == AttemptsOn(Candidate(responseText))

parseGradingResponse(responseText) ==
    With(ParseAttempts(responseText), LAMBDA r :
        IF r.ok THEN r.v ELSE ParseFailure(responseText))

\* ------------------------------------------------------------------------
\* JavaScript arithmetic on the values the normalizer meets
\* ------------------------------------------------------------------------
\* ToNumber(x) for the primitive operands; a string, array or object operand
\* (where + concatenates) is outside the modelled inputs
ToNumber(x) ==
    CASE x.t \in {"num", "nan"} -> x
      [] x.t \in {"null", "false"} -> JNum(0)
      [] x.t = "true" -> JNum(1)
      [] x.t = "undef" -> JNaN

JsAdd(a, b) ==
    LET x == ToNumber(a)
        y == ToNumber(b)
    IN  IF x.t = "nan" \/ y.t = "nan" THEN JNaN ELSE JNum(x.n + y.n)

JsSub(a, b) ==
    LET x == ToNumber(a)
        y == ToNumber(b)
    IN  IF x.t = "nan" \/ y.t = "nan" THEN JNaN ELSE JNum(x.n - y.n)

\* a > b and a >= b: false as soon as one side is NaN
JsGt(a, b) ==
    LET x == ToNumber(a)
        y == ToNumber(b)
    IN  x.t = "num" /\ y.t = "num" /\ x.n > y.n

JsGe(a, b) ==
    LET x == ToNumber(a)
        y == ToNumber(b)
    IN  x.t = "num" /\ y.t = "num" /\ x.n >= y.n

\* a === b on numbers: NaN equals nothing
NumStrictEq(a, b) == a.t = "num" /\ b.t = "num" /\ a.n = b.n

\* Math.round(a / b) for integers a and b # 0: the floor of a/b + 1/2
RoundDiv(a, b) ==
    IF b > 0 THEN (2 * a + b) \div (2 * b)
    ELSE (2 * (0 - a) + (0 - b)) \div (2 * (0 - b))

\* ------------------------------------------------------------------------
\* validateAndClampResults
\* ------------------------------------------------------------------------
K_student_name == <<"s", "t", "u", "d", "e", "n", "t", "_", "n", "a", "m", "e">>
K_rubric_breakdown == <<"r", "u", "b", "r", "i", "c", "_", "b", "r", "e", "a", "k", "d", "o", "w", "n">>
K_max_points == <<"m", "a", "x", "_", "p", "o", "i", "n", "t", "s">>
K_score == <<"s", "c", "o", "r", "e">>
K_feedback == <<"f", "e", "e", "d", "b", "a", "c", "k">>
K_total_score == <<"t", "o", "t", "a", "l", "_", "s", "c", "o", "r", "e">>
K_max_score == <<"m", "a", "x", "_", "s", "c", "o", "r", "e">>
K_percentage == <<"p", "e", "r", "c", "e", "n", "t", "a", "g", "e">>
K_strengths == <<"s", "t", "r", "e", "n", "g", "t", "h", "s">>
K_improvements == <<"i", "m", "p", "r", "o", "v", "e", "m", "e", "n", "t", "s">>
K_length == <<"l", "e", "n", "g", "t", "h">>
Anonymous == <<"A", "n", "o", "n", "y", "m", "o", "u", "s">>

\* Object.entries(rb): the values, in enumeration order (the criterion names
\* of the modelled inputs are not integer-like, so this is insertion order)
EntryVals(rb) ==
    CASE rb.t = "obj" -> rb.vs
      [] rb.t = "arr" -> rb.es \o rb.vs
      [] rb.t = "str" -> [i \in 1..Len(rb.s) |-> JStr(<<rb.s[i]>>)]
      [] OTHER -> <<>>

\* whether the i-th entry's key is a truthy string (an array index always is)
EntryKeyTruthy(rb, i) ==
    IF rb.t = "obj" THEN rb.ks[i] # <<>> ELSE TRUE

\* the rubric with its entries' values replaced: the entries are mutated in
\* place, which shows in rb only where rb holds references (object, array)
PutEntryVals(rb, vals) ==
    CASE rb.t = "obj" -> [rb EXCEPT !.vs = vals]
      [] rb.t = "arr" -> [rb EXCEPT !.es = SubSeq(vals, 1, Len(rb.es)),
                                    !.vs = SubSeq(vals, Len(rb.es) + 1, Len(vals))]
      [] OTHER -> rb

BothNumeric(details) ==
    IsNumber(GetProp(details, K_score)) /\ IsNumber(GetProp(details, K_max_points))

\* lines 312-317
RECURSIVE RawMaxSum(_, _)
RawMaxSum(vals, i) ==
    IF i > Len(vals) THEN JNum(0)
    ELSE LET rest == RawMaxSum(vals, i + 1)
             mp == GetProp(vals[i], K_max_points)
         IN  IF IsNumber(mp) THEN JsAdd(mp, rest) ELSE rest

\* Math.round(ratio * maxScore) with ratio = max_points / rawMaxSum
NewMax(maxPoints, rawMaxSum, maxScore) ==
    IF maxPoints.t = "nan" THEN JNaN
    ELSE JNum(RoundDiv(maxPoints.n * maxScore, rawMaxSum))

\* Math.round((score / max_points) * newMax): a division by zero gives an
\* infinity or NaN, and its product with newMax (then 0) is NaN
NewScore(score, maxPoints, newMax) ==
    IF score.t = "nan" \/ maxPoints.t = "nan" \/ newMax.t = "nan" THEN JNaN
    ELSE IF maxPoints.n = 0 THEN JNaN
    ELSE JNum(RoundDiv(score.n * newMax.n, maxPoints.n))

\* lines 320-328, one criterion
RescaleEntry(details, rawMaxSum, maxScore) ==
    IF BothNumeric(details)
    THEN LET newMax == NewMax(GetProp(details, K_max_points), rawMaxSum, maxScore)
             newScore == NewScore(GetProp(details, K_score),
                                  GetProp(details, K_max_points), newMax)
         IN  SetProp(SetProp(details, K_max_points, newMax), K_score, newScore)
    ELSE details

\* lines 331-340: the scan for the largest criterion, st = [sum, largestMax,
\* largest] with largest the index of largestCriterion (0 for null)
RECURSIVE LargestScan(_, _, _)
LargestScan(vals, i, st) ==
    IF i > Len(vals) THEN st
    ELSE LET mp == GetProp(vals[i], K_max_points)
             sum == JsAdd(st.sum, mp)
         IN  IF JsGe(mp, st.largestMax)
             THEN LargestScan(vals, i + 1,
                              [sum |-> sum, largestMax |-> mp, largest |-> i])
             ELSE LargestScan(vals, i + 1, [st EXCEPT !.sum = sum])

\* lines 330-343
FixRounding(rb, vals, maxScore) ==
    LET st == LargestScan(vals, 1,
                          [sum |-> JNum(0), largestMax |-> JNum(0), largest |-> 0])
    IN  IF ~NumStrictEq(st.sum, JNum(maxScore))
           /\ st.largest # 0 /\ EntryKeyTruthy(rb, st.largest)
        THEN [vals EXCEPT ![st.largest] =
                 SetProp(@, K_max_points,
                         JsAdd(GetProp(@, K_max_points),
                               JsSub(JNum(maxScore), st.sum)))]
        ELSE vals

\* a variant of Rescale that tests only rawMaxSum > 0
RescaleWhenPositive(rb, vals, maxScore) ==
    LET rawMaxSum == RawMaxSum(vals, 1)
    IN  IF JsGt(rawMaxSum, JNum(0))
        THEN FixRounding(rb,
                 [i \in 1..Len(vals) |-> RescaleEntry(vals[i], rawMaxSum.n, maxScore)],
                 maxScore)
        ELSE vals

\* lines 310-344
Rescale(rb, vals, maxScore) ==
    LET rawMaxSum == RawMaxSum(vals, 1)
    IN  IF ~NumStrictEq(rawMaxSum, JNum(maxScore)) /\ JsGt(rawMaxSum, JNum(0))
        THEN FixRounding(rb,
                 [i \in 1..Len(vals) |-> RescaleEntry(vals[i], rawMaxSum.n, maxScore)],
                 maxScore)
        ELSE vals

UpperCase == <<"A", "B", "C", "D", "E", "F", "G", "H", "I", "J", "K", "L", "M", "N", "O", "P", "Q", "R", "S", "T", "U", "V", "W", "X", "Y", "Z">>
LowerCase == <<"a", "b", "c", "d", "e", "f", "g", "h", "i", "j", "k", "l", "m", "n", "o", "p", "q", "r", "s", "t", "u", "v", "w", "x", "y", "z">>

ToLower(c) ==
    IF \E i \in 1..Len(UpperCase) : UpperCase[i] = c
    THEN LowerCase[CHOOSE i \in 1..Len(UpperCase) : UpperCase[i] = c]
    ELSE c

\* \w
IsWordChar(c) ==
    \/ \E i \in 1..Len(UpperCase) : c = UpperCase[i] \/ c = LowerCase[i]
    \/ c \in DigitSet
    \/ c = "_"

DEFICIT_PATTERNS ==
    <<
       <<"b", "u", "t">>,
       <<"h", "o", "w", "e", "v", "e", "r">>,
       <<"m", "i", "s", "s", "i", "n", "g">>,
       <<"i", "n", "c", "o", "m", "p", "l", "e", "t", "e">>,
       <<"l", "a", "c", "k", "i", "n", "g">>,
       <<"i", "n", "c", "o", "r", "r", "e", "c", "t">>,
       <<"i", "n", "a", "c", "c", "u", "r", "a", "c", "i", "e", "s">>,
       <<"i", "n", "a", "c", "c", "u", "r", "a", "c", "y">>,
       <<"n", "o", "t", " ", "f", "u", "l", "l", "y">>,
       <<"n", "o", "t", " ", "a", "d", "e", "q", "u", "a", "t", "e", "l", "y">>,
       <<"d", "i", "d", " ", "n", "o", "t">>,
       <<"d", "o", "e", "s", "n", "'", "t", " ", "p", "r", "o", "v", "i", "d", "e">>,
       <<"d", "o", "e", "s", " ", "n", "o", "t", " ", "p", "r", "o", "v", "i", "d", "e">>,
       <<"w", "a", "s", "n", "'", "t">>,
       <<"w", "e", "r", "e", "n", "'", "t">>,
       <<"f", "a", "i", "l", "e", "d", " ", "t", "o">>,
       <<"f", "e", "l", "l", " ", "s", "h", "o", "r", "t">>,
       <<"w", "e", "a", "k">>,
       <<"p", "o", "o", "r", "l", "y">>,
       <<"i", "n", "s", "u", "f", "f", "i", "c", "i", "e", "n", "t">>,
       <<"a", "b", "s", "e", "n", "t">>,
       <<"n", "e", "e", "d", "s", " ", "f", "u", "r", "t", "h", "e", "r">>,
       <<"n", "e", "e", "d", "s", " ", "m", "o", "r", "e">>,
       <<"n", "e", "e", "d", "s", " ", "i", "m", "p", "r", "o", "v", "e", "m", "e", "n", "t">>,
       <<"r", "e", "m", "a", "i", "n", "s", " ", "l", "a", "r", "g", "e", "l", "y">>,
       <<"l", "a", "c", "k", " ", "o", "f">>
    >>

\* a variant of DeficitTest without the i flag
DeficitTestCaseSensitive(feedback) ==
    \E k \in 1..Len(DEFICIT_PATTERNS) :
      \E p \in 1..Len(feedback) :
        /\ HasAt(feedback, p, DEFICIT_PATTERNS[k])
        /\ (p = 1 \/ ~IsWordChar(feedback[p - 1]))
        /\ (p + Len(DEFICIT_PATTERNS[k]) > Len(feedback)
              \/ ~IsWordChar(feedback[p + Len(DEFICIT_PATTERNS[k])]))

\* DEFICIT_PATTERNS.test(feedback): /\b(p1|p2|...)\b/i.  Every alternative
\* starts and ends with a word character, so \b asks for a non-word character
\* (or the end of the text) on the outer side.
DeficitTest(feedback) ==
    LET low == [i \in 1..Len(feedback) |-> ToLower(feedback[i])]
    IN  \E k \in 1..Len(DEFICIT_PATTERNS) :
          \E p \in 1..Len(low) :
            /\ HasAt(low, p, DEFICIT_PATTERNS[k])
            /\ (p = 1 \/ ~IsWordChar(low[p - 1]))
            /\ LET q == p + Len(DEFICIT_PATTERNS[k])
               IN  q > Len(low) \/ ~IsWordChar(low[q])

\* Math.max(0, score - 1)
DecrementFloor0(score) ==
    IF score.t = "nan" THEN JNaN
    ELSE IF score.n - 1 > 0 THEN JNum(score.n - 1) ELSE JNum(0)

\* lines 349-360, one criterion
ContradictionEntry(details) ==
    IF /\ BothNumeric(details)
       /\ GetProp(details, K_feedback).t = "str"
       /\ NumStrictEq(GetProp(details, K_score), GetProp(details, K_max_points))
       /\ DeficitTest(GetProp(details, K_feedback).s)
    THEN SetProp(details, K_score, DecrementFloor0(GetProp(details, K_score)))
    ELSE details

\* lines 366-371: the score of a criterion with numeric score and max_points
ClampedScore(score, maxPoints) ==
    LET s1 == IF JsGt(score, maxPoints) THEN maxPoints ELSE score
    IN  IF JsGt(JNum(0), s1) THEN JNum(0) ELSE s1

\* lines 364-374, one criterion
ClampEntry(details) ==
    IF BothNumeric(details)
    THEN SetProp(details, K_score,
                 ClampedScore(GetProp(details, K_score),
                              GetProp(details, K_max_points)))
    ELSE details

\* totalClamped, lines 363-374
RECURSIVE TotalClamped(_, _)
TotalClamped(vals, i) ==
    IF i > Len(vals) THEN JNum(0)
    ELSE IF BothNumeric(vals[i])
         THEN JsAdd(GetProp(vals[i], K_score), TotalClamped(vals, i + 1))
         ELSE TotalClamped(vals, i + 1)

\* lines 380-382
CapTotal(total, maxScore) ==
    IF JsGt(total, JNum(maxScore)) THEN JNum(maxScore) ELSE total

\* lines 384-385
Percentage(total, maxScore) ==
    IF total.t = "nan" THEN JNaN
    ELSE LET pct == RoundDiv(total.n * 100, maxScore)
         IN  IF pct > 100 THEN JNum(100) ELSE JNum(pct)

\* a variant of DefaultStudentName that overwrites whatever name was parsed
DefaultStudentNameAlways(results, studentName) ==
    SetProp(results, K_student_name,
            JStr(IF studentName # <<>> THEN studentName ELSE Anonymous))

\* lines 304-306
DefaultStudentName(results, studentName) ==
    LET sn == GetProp(results, K_student_name)
    IN  IF ~Truthy(sn) \/ (sn.t = "str" /\ sn.s = Anonymous)
        THEN SetProp(results, K_student_name,
                     JStr(IF studentName # <<>> THEN studentName ELSE Anonymous))
        ELSE results

\* line 314 reads details.max_points of every entry: a null entry is a TypeError
ValidateThrows(results) ==
    /\ results.t \notin {"null", "undef"}
    /\ Truthy(results)
    /\ ~Truthy(GetProp(results, K_parse_error))
    /\ Truthy(GetProp(results, K_rubric_breakdown))
    /\ LET vals == EntryVals(GetProp(results, K_rubric_breakdown))
       IN  \E i \in 1..Len(vals) : vals[i].t \in {"null", "undef"}

\* validateAndClampResults(results, maxScore, studentName) where it returns
validateAndClampResults(results, maxScore, studentName) ==
    IF ~Truthy(results) \/ Truthy(GetProp(results, K_parse_error)) THEN results
    ELSE LET named == DefaultStudentName(results, studentName)
             rb == GetProp(named, K_rubric_breakdown)
         IN  IF ~Truthy(rb) THEN named
             ELSE LET v0 == EntryVals(rb)
                      v1 == Rescale(rb, v0, maxScore)
                      v2 == [i \in 1..Len(v1) |-> ContradictionEntry(v1[i])]
                      v3 == [i \in 1..Len(v2) |-> ClampEntry(v2[i])]
                      total == CapTotal(TotalClamped(v3, 1), maxScore)
                      r1 == SetProp(named, K_rubric_breakdown, PutEntryVals(rb, v3))
                      r2 == SetProp(r1, K_total_score, total)
                      r3 == SetProp(r2, K_max_score, JNum(maxScore))
                  IN  SetProp(r3, K_percentage, Percentage(total, maxScore))

\* ------------------------------------------------------------------------
\* formatTextReport
\* ------------------------------------------------------------------------
\* x.length
LengthOf(x) ==
    CASE x.t = "arr" -> JNum(Len(x.es))
      [] x.t = "str" -> JNum(Len(x.s))
      [] OTHER -> GetProp(x, K_length)

\* `if (list && list.length > 0) for (const s of list)`: iterating a value
\* that is not iterable is a TypeError
ListThrows(list) ==
    Truthy(list) /\ JsGt(LengthOf(list), JNum(0)) /\ list.t \notin {"arr", "str"}

FormatThrows(results) ==
    \/ ListThrows(GetProp(results, K_strengths))
    \/ ListThrows(GetProp(results, K_improvements))

\* the report text is kept as the value it was formatted from
formatTextReport(results) == [kind |-> "report", text |-> <<>>, of |-> results]

\* textReport when results.parse_error is truthy: the first completion itself
RawReport(responseText) == [kind |-> "raw", text |-> responseText, of |-> JUndef]

NoReport == [kind |-> "none", text |-> <<>>, of |-> JUndef]

\* ------------------------------------------------------------------------
\* Completions the backend may return
\* ------------------------------------------------------------------------
\* valid JSON that is no object
T_null ==
    <<"n", "u", "l", "l">>
T_number ==
    <<"4", "2">>
T_array ==
    <<"[", "1", "]">>
T_string ==
    <<"\"", "h", "i", "\"">>
\* no brace at all
T_prose ==
    <<"I", " ", "c", "a", "n", "n", "o", "t", " ", "g", "r", "a", "d", "e", " ", "t",
      "h", "i", "s", ".">>
\* an object cut after a comma
T_truncated ==
    <<"{", "\"", "a", "\"", ":", "1", ",">>
\* balanced but invalid
T_unquoted ==
    <<"{", "a", ":", "1", "}">>
\* a parsed object that has a parse_error field
T_parse_error ==
    <<"{", "\"", "p", "a", "r", "s", "e", "_", "e", "r", "r", "o", "r", "\"", ":", "\"",
      "x", "\"", ",", "\"", "t", "o", "t", "a", "l", "_", "s", "c", "o", "r", "e", "\"",
      ":", "5", "}">>
\* commentary, then a rubric
T_good ==
    <<"H", "e", "r", "e", ":", " ", "{", "\"", "r", "u", "b", "r", "i", "c", "_", "b",
      "r", "e", "a", "k", "d", "o", "w", "n", "\"", ":", "{", "\"", "A", "\"", ":", "{",
      "\"", "s", "c", "o", "r", "e", "\"", ":", "1", ",", "\"", "m", "a", "x", "_", "p",
      "o", "i", "n", "t", "s", "\"", ":", "2", ",", "\"", "f", "e", "e", "d", "b", "a",
      "c", "k", "\"", ":", "\"", "o", "k", "\"", "}", "}", "}">>
\* a fenced rubric with a contradiction
T_fenced ==
    <<" ", BT, BT, BT, "j", "s", "o", "n", "\n", "{", "\"", "r", "u", "b", "r", "i", "c",
      "_", "b", "r", "e", "a", "k", "d", "o", "w", "n", "\"", ":", "{", "\"", "A", "\"",
      ":", "{", "\"", "s", "c", "o", "r", "e", "\"", ":", "3", ",", "\"", "m", "a", "x",
      "_", "p", "o", "i", "n", "t", "s", "\"", ":", "3", ",", "\"", "f", "e", "e", "d",
      "b", "a", "c", "k", "\"", ":", "\"", "G", "o", "o", "d", ",", " ", "b", "u", "t",
      " ", "s", "h", "o", "r", "t", "\"", "}", "}", "}", "\n", BT, BT, BT, " ">>
\* a criterion worth 0 points
T_zero_max ==
    <<"{", "\"", "r", "u", "b", "r", "i", "c", "_", "b", "r", "e", "a", "k", "d", "o",
      "w", "n", "\"", ":", "{", "\"", "A", "\"", ":", "{", "\"", "s", "c", "o", "r", "e",
      "\"", ":", "1", ",", "\"", "m", "a", "x", "_", "p", "o", "i", "n", "t", "s", "\"",
      ":", "0", "}", ",", "\"", "B", "\"", ":", "{", "\"", "s", "c", "o", "r", "e", "\"",
      ":", "1", ",", "\"", "m", "a", "x", "_", "p", "o", "i", "n", "t", "s", "\"", ":",
      "1", "}", "}", "}">>
\* a criterion that is null
T_null_criterion ==
    <<"{", "\"", "r", "u", "b", "r", "i", "c", "_", "b", "r", "e", "a", "k", "d", "o",
      "w", "n", "\"", ":", "{", "\"", "A", "\"", ":", "n", "u", "l", "l", "}", "}">>

Completions ==
    {T_null, T_number, T_array, T_string, T_prose, T_truncated, T_unquoted,
     T_parse_error, T_good, T_fenced, T_zero_max, T_null_criterion}

\* ------------------------------------------------------------------------
\* gradeSubmission as a state machine
\* ------------------------------------------------------------------------
\* maxScore = 100 when the caller gives none
DefaultMaxScore == 100

\* the largest point value of the generated rubrics
MaxPts == 2

Backends == {"ollama", "cursor"}
PipelineMaxScores == {MaxPts, DefaultMaxScore}
StudentNames == {<<>>, <<"S", "a", "m">>, <<"J", "\"", "o">>}

VARIABLES
    mode,          \* "pipeline" | "normalizer" | "parser" | "batch" | "concurrent"
    pc,            \* the position of the gradeSubmission invocation
    backend,       \* its backend argument
    maxScore,      \* its maxScore argument
    studentName,   \* its studentName argument
    calls,         \* completion-backend calls issued so far
    responseText,  \* the first completion
    retryText,     \* the retry completion
    results,       \* the local variable results
    textReport,    \* the textReport of the returned object
    returned,      \* whether the invocation has returned a value
    error,         \* "none" | "BackendError" | "TypeError": what it threw
    sent,          \* the requests handed to the completion backend, in order
    vIn,           \* normalizer runs: the parsed object handed in
    vOut,          \* normalizer runs: the object handed back
    vpc,           \* normalizer runs: "input" | "done" | "threw"
    pIn,           \* parser runs: the text handed in, and how it was built
    pOut,          \* parser runs: what the repair and the parse made of it
    ppc,           \* parser runs: "input" | "repaired" | "parsed"
    submissions,   \* batch runs: req.files.submissions, one record per file
    instructions,  \* batch runs: "given" | "missing" | "unreadable"
    iter,          \* batch runs: the position of each file's loop iteration
    data,          \* batch runs: the array results of the route
    response,      \* batch runs: the response sent
    files,         \* the temp files on disk: uploads of the request, prompt files
    inv,           \* concurrent runs: the gradeSubmission invocations
    now            \* concurrent runs: Date.now()

vars ==
    <<mode, pc, backend, maxScore, studentName, calls, responseText, retryText,
      results, textReport, returned, error, sent, vIn, vOut, vpc,
      pIn, pOut, ppc, submissions, instructions, iter, data, response,
      files, inv, now>>

pipelineVars ==
    <<pc, backend, calls, responseText, retryText, results, textReport,
      returned, error, sent>>

normalizerVars == <<vIn, vOut, vpc>>

parserVars == <<pIn, pOut, ppc>>

batchVars == <<submissions, instructions, iter, data, response>>

concurrentVars == <<inv, now>>

NoText == <<>>

\* getCompletionFromCursor returns the trimmed stdout (line 478);
\* ollama.chat returns response.message.content as it is (lines 548, 575)
Completion(b, text) == IF b = "cursor" THEN Trim(text) ELSE text

\* studentName || "Anonymous"
NameOrAnonymous(name) == IF name # <<>> THEN name ELSE Anonymous

\* s.replace(/"/g, '\\"'): every double quote gets a backslash before it
RECURSIVE EscapeQuotes(_)
EscapeQuotes(s) ==
    IF s = <<>> THEN <<>>
    ELSE (IF Head(s) = "\"" THEN <<"\\", "\"">> ELSE <<Head(s)>>)
             \o EscapeQuotes(Tail(s))

\* buildGradingPrompt (lines 59-205): the grading prompt, by what the
\* template holds: the instructions, submission and rubric sections, and
\* the studentName and maxScore it echoes
GradingPrompt(m, name) ==
    [template |-> "grading", instructions |-> TRUE,
     studentName |-> NameOrAnonymous(name), maxScore |-> m, text |-> <<>>]

\* lines 559-560: the correction prompt, a fixed text with studentName and
\* maxScore filled in
CorrectionPrompt(m, name) ==
    [template |-> "correction", instructions |-> FALSE,
     studentName |-> EscapeQuotes(NameOrAnonymous(name)), maxScore |-> m,
     text |-> <<>>]

Message(role, content) == [role |-> role, content |-> content]

\* a text the model replied with, as the content of a message
Reply(text) ==
    [template |-> "reply", instructions |-> FALSE, studentName |-> <<>>,
     maxScore |-> 0, text |-> text]

\* lines 534-548: the first request
FirstRequest(b, m, name) ==
    IF b = "cursor"
    THEN [to |-> "cursor", messages |-> <<Message("prompt", GradingPrompt(m, name))>>]
    ELSE [to |-> "ollama", messages |-> <<Message("user", GradingPrompt(m, name))>>]

\* a variant of RetryRequest that sends the correction prompt alone to
\* either backend
RetryRequestIsolated(b, m, name, firstText) ==
    IF b = "cursor"
    THEN [to |-> "cursor", messages |-> <<Message("prompt", CorrectionPrompt(m, name))>>]
    ELSE [to |-> "ollama", messages |-> <<Message("user", CorrectionPrompt(m, name))>>]

\* lines 562-576: the retry request
RetryRequest(b, m, name, firstText) ==
    IF b = "cursor"
    THEN [to |-> "cursor", messages |-> <<Message("prompt", CorrectionPrompt(m, name))>>]
    ELSE [to |-> "ollama",
          messages |-> <<Message("user", GradingPrompt(m, name)),
                         Message("assistant", Reply(firstText)),
                         Message("user", CorrectionPrompt(m, name))>>]

\* lines 520-549: the first backend call is issued
SendFirst ==
    /\ mode = "pipeline"
    /\ pc = "NotStarted"
    /\ pc' = "Call1"
    /\ calls' = calls + 1
    /\ sent' = Append(sent, FirstRequest(backend, maxScore, studentName))
    /\ UNCHANGED <<mode, backend, maxScore, studentName, responseText, retryText,
                   results, textReport, returned, error, vIn, vOut, vpc,
                   parserVars, batchVars, concurrentVars, files>>

\* the first call returns a completion
ReceiveFirst ==
    /\ mode = "pipeline"
    /\ pc = "Call1"
    /\ \E text \in Completions : responseText' = Completion(backend, text)
    /\ pc' = "Attempt1Done"
    /\ UNCHANGED <<mode, backend, maxScore, studentName, calls, retryText,
                   results, textReport, returned, error, vIn, vOut, vpc,
                   parserVars, batchVars, concurrentVars, files, sent>>

\* a variant of FailFirst that catches the failure of the first call and
\* goes on to the correction prompt
FailFirstThenRetry ==
    /\ mode = "pipeline"
    /\ pc = "Call1"
    /\ pc' = "NeedsRetry"
    /\ error' = "BackendError"
    /\ results' = ParseFailure(NoText)
    /\ UNCHANGED <<mode, backend, maxScore, studentName, calls, responseText,
                   retryText, textReport, returned, vIn, vOut, vpc,
                   parserVars, batchVars, concurrentVars, files, sent>>

\* the first call fails: ollama.chat rejects, or getCompletionFromCursor
\* throws (lines 481-495); nothing in gradeSubmission catches it
FailFirst ==
    /\ mode = "pipeline"
    /\ pc = "Call1"
    /\ pc' = "Failed"
    /\ error' = "BackendError"
    /\ UNCHANGED <<mode, backend, maxScore, studentName, calls, responseText,
                   retryText, results, textReport, returned, vIn, vOut, vpc,
                   parserVars, batchVars, concurrentVars, files, sent>>

\* lines 591-598 on the final value of results
Finalize(res) ==
    IF ~Truthy(GetProp(res, K_parse_error)) /\ FormatThrows(res)
    THEN /\ pc' = "Failed"
         /\ error' = "TypeError"
         /\ results' = res
         /\ UNCHANGED <<textReport, returned>>
    ELSE /\ pc' = "Finalized"
         /\ results' = res
         /\ textReport' = IF Truthy(GetProp(res, K_parse_error))
                          THEN RawReport(responseText)
                          ELSE formatTextReport(res)
         /\ returned' = TRUE
         /\ UNCHANGED error

\* a TypeError leaves gradeSubmission: line 314 inside the normalizer, or the
\* read of .parse_error on null at lines 555 and 581
ThrowTypeError ==
    /\ pc' = "Failed"
    /\ error' = "TypeError"
    /\ UNCHANGED <<results, textReport, returned>>

\* line 555 on the normalized first results
AfterFirst(res) ==
    IF res.t \in {"null", "undef"} THEN ThrowTypeError
    ELSE IF Truthy(GetProp(res, K_parse_error))
    THEN /\ pc' = "NeedsRetry"
         /\ results' = res
         /\ UNCHANGED <<textReport, returned, error>>
    ELSE Finalize(res)

\* line 552 on the parsed first completion
NormalizeFirst(parsed) ==
    IF ValidateThrows(parsed) THEN ThrowTypeError
    ELSE AfterFirst(validateAndClampResults(parsed, maxScore, studentName))

\* lines 551-555 and, without a retry, 591-598
ProcessFirst ==
    /\ mode = "pipeline"
    /\ pc = "Attempt1Done"
    /\ NormalizeFirst(parseGradingResponse(responseText))
    /\ UNCHANGED <<mode, backend, maxScore, studentName, calls, responseText,
                   retryText, vIn, vOut, vpc,
                   parserVars, batchVars, concurrentVars, files, sent>>

\* lines 556-576: the retry call is issued
SendRetry ==
    /\ mode = "pipeline"
    /\ pc = "NeedsRetry"
    /\ pc' = "Call2"
    /\ calls' = calls + 1
    /\ sent' = Append(sent, RetryRequest(backend, maxScore, studentName, responseText))
    /\ UNCHANGED <<mode, backend, maxScore, studentName, responseText, retryText,
                   results, textReport, returned, error, vIn, vOut, vpc,
                   parserVars, batchVars, concurrentVars, files>>

ReceiveRetry ==
    /\ mode = "pipeline"
    /\ pc = "Call2"
    /\ \E text \in Completions : retryText' = Completion(backend, text)
    /\ pc' = "RetryDone"
    /\ UNCHANGED <<mode, backend, maxScore, studentName, calls, responseText,
                   results, textReport, returned, error, vIn, vOut, vpc,
                   parserVars, batchVars, concurrentVars, files, sent>>

FailRetry ==
    /\ mode = "pipeline"
    /\ pc = "Call2"
    /\ pc' = "Failed"
    /\ error' = "BackendError"
    /\ UNCHANGED <<mode, backend, maxScore, studentName, calls, responseText,
                   retryText, results, textReport, returned, vIn, vOut, vpc,
                   parserVars, batchVars, concurrentVars, files, sent>>

\* a variant of AfterRetry that asks again when the retry fails as well
AfterRetryAsksAgain(retryResults) ==
    IF retryResults.t \in {"null", "undef"} THEN ThrowTypeError
    ELSE IF ~Truthy(GetProp(retryResults, K_parse_error))
    THEN Finalize(retryResults)
    ELSE /\ pc' = "NeedsRetry"
         /\ UNCHANGED <<results, textReport, returned, error>>

\* lines 581-589 on the normalized retry results
AfterRetry(retryResults) ==
    IF retryResults.t \in {"null", "undef"} THEN ThrowTypeError
    ELSE IF ~Truthy(GetProp(retryResults, K_parse_error))
    THEN Finalize(retryResults)
    ELSE Finalize(SetProp(results, K_raw_response, JStr(responseText)))

\* line 579 on the parsed retry completion
NormalizeRetry(parsed) ==
    IF ValidateThrows(parsed) THEN ThrowTypeError
    ELSE AfterRetry(validateAndClampResults(parsed, maxScore, studentName))

\* lines 578-598
ProcessRetry ==
    /\ mode = "pipeline"
    /\ pc = "RetryDone"
    /\ NormalizeRetry(parseGradingResponse(retryText))
    /\ UNCHANGED <<mode, backend, maxScore, studentName, calls, responseText,
                   retryText, vIn, vOut, vpc,
                   parserVars, batchVars, concurrentVars, files, sent>>

\* ------------------------------------------------------------------------
\* Properties of gradeSubmission (specification Spec)
\* ------------------------------------------------------------------------
\* the first completion has been through lines 551-555
FirstProcessed ==
    \/ pc \in {"NeedsRetry", "Call2", "RetryDone", "Finalized"}
    \/ pc = "Failed" /\ (calls = 2 \/ error = "TypeError")

\* both JSON.parse attempts of parseGradingResponse threw on the text
Unparseable(text) == ~ParseAttempts(text).ok

\* a retry was decided on (and perhaps already issued)
Retried == pc \in {"NeedsRetry", "Call2", "RetryDone"} \/ calls = 2

\* C1: every invocation of gradeSubmission issues at most two calls of the
\* completion backend, whatever the backend and the outcome of each call.
C1_AtMostTwoCalls == calls <= 2

\* the retry was issued and the invocation returned
C1_Witness == calls = 2 /\ pc = "Finalized" /\ returned

\* C2: a retry is issued if and only if the first completion could not be
\* parsed: a first completion that parses goes straight to Finalized with a
\* single call, and one that does not parse is retried.  (Stated for the
\* invocations in which nothing is thrown while the results are processed.)
C2_RetryIffUnparseable ==
    (FirstProcessed /\ error # "TypeError") =>
        IF Unparseable(responseText) THEN Retried
        ELSE pc = "Finalized" /\ calls = 1

\* C3: after a retry that returns, a retry completion that parses gives the
\* normalized retry result; one that does not parse gives a payload with
\* parse_error, raw_response equal to the first completion, no total_score,
\* max_score or percentage, and a textReport equal to the first completion.
C3_AfterRetry ==
    (pc = "Finalized" /\ calls = 2) =>
        IF Unparseable(retryText)
        THEN /\ Truthy(GetProp(results, K_parse_error))
             /\ GetProp(results, K_raw_response) = JStr(responseText)
             /\ IndexOfKey(results.ks, K_total_score) = 0
             /\ IndexOfKey(results.ks, K_max_score) = 0
             /\ IndexOfKey(results.ks, K_percentage) = 0
             /\ textReport = RawReport(responseText)
        ELSE results = validateAndClampResults(ParseAttempts(retryText).v,
                                               maxScore, studentName)

\* C4: when no backend call fails, gradeSubmission never throws: it ends
\* failed only by a backend error, and a first and a retry completion that are
\* both unparseable come back as data carrying parse_error.
C4_NeverThrows ==
    /\ pc = "Failed" => error = "BackendError"
    /\ (pc = "Finalized" /\ Unparseable(responseText) /\ Unparseable(retryText))
          => Truthy(GetProp(results, K_parse_error))

\* C5: once a backend call has failed, on the first attempt or on the retry,
\* gradeSubmission has ended with that error, nothing is returned (neither a
\* parse-failure payload nor a grading result), and no further backend call
\* is issued.
C5_BackendFailureIsFinal ==
    /\ [](error = "BackendError" =>
             pc = "Failed" /\ ~returned /\ textReport = NoReport)
    /\ [][error = "BackendError" => calls' = calls /\ pc' = pc]_vars

\* the retry call failed
C5_Witness == error = "BackendError" /\ calls = 2 /\ pc = "Failed"

\* ------------------------------------------------------------------------
\* Consistency of a grading result
\* ------------------------------------------------------------------------
\* the sum of the max_points that are numbers (typeof), over all criteria
RECURSIVE SumMaxPoints(_, _)
SumMaxPoints(vals, i) ==
    IF i > Len(vals) THEN JNum(0)
    ELSE IF IsNumber(GetProp(vals[i], K_max_points))
         THEN JsAdd(GetProp(vals[i], K_max_points), SumMaxPoints(vals, i + 1))
         ELSE SumMaxPoints(vals, i + 1)

\* the sum of the scores of the criteria with a numeric score and max_points
RECURSIVE SumScores(_, _)
SumScores(vals, i) ==
    IF i > Len(vals) THEN JNum(0)
    ELSE IF BothNumeric(vals[i])
         THEN JsAdd(GetProp(vals[i], K_score), SumScores(vals, i + 1))
         ELSE SumScores(vals, i + 1)

\* the criteria of a result
CriteriaOf(r) == EntryVals(GetProp(r, K_rubric_breakdown))

\* sum(max_points) == maxScore
MaxPointsSumTo(r, m) == NumStrictEq(SumMaxPoints(CriteriaOf(r), 1), JNum(m))

\* every criterion with a numeric score and max_points has 0 <= score <= max_points
ScoresInRange(r) ==
    \A i \in 1..Len(CriteriaOf(r)) :
        BothNumeric(CriteriaOf(r)[i]) =>
            /\ JsGe(GetProp(CriteriaOf(r)[i], K_score), JNum(0))
            /\ JsGe(GetProp(CriteriaOf(r)[i], K_max_points),
                    GetProp(CriteriaOf(r)[i], K_score))

\* total_score == sum of the scores
TotalIsSum(r) == NumStrictEq(GetProp(r, K_total_score), SumScores(CriteriaOf(r), 1))

\* total_score <= max_score and max_score == m
TotalWithinMax(r, m) ==
    /\ GetProp(r, K_max_score) = JNum(m)
    /\ JsGe(JNum(m), GetProp(r, K_total_score))

\* percentage is an integer in 0..100, round(total_score / max_score * 100)
\* capped at 100
PercentageConsistent(r) ==
    /\ GetProp(r, K_percentage).t = "num"
    /\ GetProp(r, K_percentage).n \in 0..100
    /\ GetProp(r, K_total_score).t = "num"
    /\ GetProp(r, K_max_score).t = "num"
    /\ GetProp(r, K_max_score).n # 0
    /\ GetProp(r, K_percentage) =
           Percentage(GetProp(r, K_total_score), GetProp(r, K_max_score).n)

\* shape (a): a fully consistent grading result for maxScore m
IsGradingResult(r, m) ==
    /\ r.t = "obj"
    /\ GetProp(r, K_rubric_breakdown).t = "obj"
    /\ MaxPointsSumTo(r, m)
    /\ ScoresInRange(r)
    /\ TotalIsSum(r)
    /\ TotalWithinMax(r, m)
    /\ PercentageConsistent(r)

\* shape (b): a parse-failure payload
IsParseFailure(r) ==
    /\ r.t = "obj"
    /\ Truthy(GetProp(r, K_parse_error))
    /\ IndexOfKey(r.ks, K_raw_response) # 0

\* C6: whenever gradeSubmission returns, the returned results is either a
\* fully consistent grading result (rubric_breakdown present, max_points
\* summing to max_score == maxScore, scores in range, total_score the sum of
\* the scores, percentage consistent) or a parse-failure payload carrying
\* parse_error and raw_response.
C6_TwoShapes ==
    pc = "Finalized" => IsGradingResult(results, maxScore) \/ IsParseFailure(results)

\* ------------------------------------------------------------------------
\* validateAndClampResults on generated parsed objects
\* ------------------------------------------------------------------------
\* the criteria a generated rubric may have, in this order
CriterionNames == <<<<"A">>, <<"B">>>>

F_clean == <<"E", "x", "c", "e", "l", "l", "e", "n", "t", ".">>
F_deficit == <<"G", "o", "o", "d", ",", " ", "B", "U", "T", " ", "s", "h", "o", "r", "t">>

\* a property that is absent is written JUndef
PointValues == {JNum(i) : i \in (0 - 1)..MaxPts} \cup {JUndef}
ScoreValues == {JNum(i) : i \in (0 - 1)..MaxPts} \cup {JUndef}
\* a keyword inside a longer word
F_embedded == <<"R", "e", "b", "u", "t", "t", "a", "l", " ", "o", "k">>
FeedbackValues == {JStr(F_clean), JStr(F_deficit), JStr(F_embedded)}
NormalizerMaxScores == ((0 - 1)..(MaxPts + 1)) \ {0}

PutIfPresent(obj, k, v) == IF v.t = "undef" THEN obj ELSE SetProp(obj, k, v)

MkCriterion(score, maxPoints, feedback) ==
    PutIfPresent(PutIfPresent(PutIfPresent(JObj(<<>>, <<>>), K_score, score),
                              K_max_points, maxPoints),
                 K_feedback, feedback)

Criteria ==
    {MkCriterion(s, m, f) : s \in ScoreValues, m \in PointValues, f \in FeedbackValues}

\* the parsed objects {rubric_breakdown: {A: ..., B: ...}}
ParsedRubrics ==
    {JObj(<<K_rubric_breakdown>>, <<JObj(SubSeq(CriterionNames, 1, 1), <<a>>)>>) :
        a \in Criteria}
    \cup {JObj(<<K_rubric_breakdown>>, <<JObj(CriterionNames, <<a, b>>)>>) :
              a \in Criteria, b \in Criteria}

\* the student_name a parsed object may carry: none, the placeholder, a name,
\* an empty string, null
N_bob == <<"B", "o", "b">>
ParsedNames == {JUndef, JStr(Anonymous), JStr(N_bob), JStr(<<>>), JNull}

\* a parsed object with the totals the model wrote, and no rubric_breakdown
Totals ==
    JObj(<<K_total_score, K_max_score, K_percentage>>, <<JNum(5), JNum(10), JNum(50)>>)

\* the parsed objects without a rubric, one of them with rubric_breakdown
\* null, and the parse-failure objects
ParsedPlain ==
    {PutIfPresent(Totals, K_student_name, n) : n \in ParsedNames}
    \cup {SetProp(Totals, K_rubric_breakdown, JNull)}
    \cup {PutIfPresent(ParseFailure(T_prose), K_student_name, n) :
              n \in {JUndef, JStr(Anonymous)}}

\* rubrics of three criteria A, B, C, each at full marks k/k
ThreeNames == <<<<"A">>, <<"B">>, <<"C">>>>

FullMarkRubrics ==
    {JObj(<<K_rubric_breakdown>>,
          <<JObj(ThreeNames, [i \in 1..3 |-> MkCriterion(JNum(k), JNum(k), JStr(F_clean))])>>) :
        k \in 1..MaxPts}

\* one call of validateAndClampResults
Validate ==
    /\ mode = "normalizer"
    /\ vpc = "input"
    /\ IF ValidateThrows(vIn)
       THEN vpc' = "threw" /\ UNCHANGED vOut
       ELSE /\ vpc' = "done"
            /\ vOut' = validateAndClampResults(vIn, maxScore, studentName)
    /\ UNCHANGED <<mode, maxScore, studentName, vIn>>
    /\ UNCHANGED <<pipelineVars, parserVars, batchVars, concurrentVars, files>>

\* rawMaxSum of the parsed input (lines 312-317)
InputRawMaxSum == RawMaxSum(CriteriaOf(vIn), 1)

\* the parsed input is as a careful grader would write it: every criterion
\* has a numeric score and max_points with 0 <= score <= max_points
WellFormedInput ==
    \A i \in 1..Len(CriteriaOf(vIn)) :
        /\ GetProp(CriteriaOf(vIn)[i], K_score).t = "num"
        /\ GetProp(CriteriaOf(vIn)[i], K_max_points).t = "num"
        /\ GetProp(CriteriaOf(vIn)[i], K_score).n >= 0
        /\ GetProp(CriteriaOf(vIn)[i], K_max_points).n
              >= GetProp(CriteriaOf(vIn)[i], K_score).n

\* C7: for a parsed rubric whose rawMaxSum is > 0 and differs from maxScore,
\* the max_points of the normalized criteria sum to maxScore exactly.
\* (Stated for a positive maxScore.)
C7_MaxPointsSumToMaxScore ==
    (vpc = "done" /\ maxScore > 0
                  /\ JsGt(InputRawMaxSum, JNum(0))
                  /\ ~NumStrictEq(InputRawMaxSum, JNum(maxScore)))
        => MaxPointsSumTo(vOut, maxScore)

\* C8: after normalization every criterion with a numeric score and
\* max_points has 0 <= score <= max_points (so neither is NaN and max_points
\* is not negative).  (Stated for a positive maxScore and a well-formed
\* input, which may hold a criterion with max_points 0.)
C8_ScoresInRange ==
    (vpc = "done" /\ maxScore > 0 /\ WellFormedInput) => ScoresInRange(vOut)

\* C9: after normalization total_score is the sum of the clamped scores and
\* at most max_score, both at once, and max_score is the caller's maxScore.
\* (Stated for a positive maxScore and a well-formed input.)
C9_TotalConsistent ==
    (vpc = "done" /\ maxScore > 0 /\ WellFormedInput)
        => TotalIsSum(vOut) /\ TotalWithinMax(vOut, maxScore)

\* C10: after normalization percentage is an integer in 0..100 equal to
\* round(total_score / max_score * 100) capped at 100.  (Stated for a
\* positive maxScore and a well-formed input.)
C10_PercentageInRange ==
    (vpc = "done" /\ maxScore > 0 /\ WellFormedInput) => PercentageConsistent(vOut)

\* ------------------------------------------------------------------------
\* parseGradingResponse and repairTruncatedJson on generated texts
\* ------------------------------------------------------------------------
\* well-formed JSON objects
\* nested objects, and white space after a comma: {"a":{"b":1}, "c":2}
D_nested ==
    <<"{", "\"", "a", "\"", ":", "{", "\"", "b", "\"", ":", "1", "}", ",", " ", "\"",
      "c", "\"", ":", "2", "}">>
\* an object opened inside an array: {"a":[{"b":1}]}
D_object_in_array ==
    <<"{", "\"", "a", "\"", ":", "[", "{", "\"", "b", "\"", ":", "1", "}", "]", "}">>
\* a string whose last character is a comma, and an array: {"a":"h,","b":[1]}
D_comma_in_string ==
    <<"{", "\"", "a", "\"", ":", "\"", "h", ",", "\"", ",", "\"", "b", "\"", ":", "[",
      "1", "]", "}">>
\* a string that ends in an escaped backslash: {"a":"x\\"}
D_backslash_end ==
    <<"{", "\"", "a", "\"", ":", "\"", "x", "\\", "\\", "\"", "}">>
\* a string that holds an escaped quote: {"a":"q\"z"}
D_escaped_quote ==
    <<"{", "\"", "a", "\"", ":", "\"", "q", "\\", "\"", "z", "\"", "}">>
\* a string that holds a fence: {"a":"BT BT BT "}
D_fence_in_string ==
    <<"{", "\"", "a", "\"", ":", "\"", BT, BT, BT, "\"", "}">>

Documents ==
    {D_nested, D_object_in_array, D_comma_in_string, D_backslash_end,
     D_escaped_quote, D_fence_in_string}

\* commentary put before an object: no brace, no fence
Commentary ==
    <<"H", "e", "r", "e", ":", " ">>

\* the object in a fenced block tagged json
Fenced(o) == Fence \o JsonTag \o <<"\n">> \o o \o <<"\n">> \o Fence

\* texts that are no prefix of an object
PlainTexts ==
    {T_null, T_number, T_array, T_string, T_prose, T_unquoted, Fenced(T_array)}

\* the texts handed to the parser: every truncation of every document, every
\* document after commentary, bare and fenced, and the plain texts
ParserInputs ==
    UNION {{[kind |-> "prefix", doc |-> d, text |-> SubSeq(d, 1, k)] :
               k \in 1..Len(d)} : d \in Documents}
    \cup {[kind |-> "commentary", doc |-> d, text |-> Commentary \o d] :
              d \in Documents}
    \cup {[kind |-> "fenced", doc |-> d, text |-> Commentary \o Fenced(d)] :
              d \in Documents}
    \cup {[kind |-> "plain", doc |-> <<>>, text |-> x] : x \in PlainTexts}

\* the positions of str where the scans of repairTruncatedJson toggle
Toggles(str) == {i \in 1..Len(str) : IsToggleQuote(str, i)}

\* one call of repairTruncatedJson on the text
RepairText ==
    /\ mode = "parser"
    /\ ppc = "input"
    /\ ppc' = "repaired"
    /\ pOut' = [scanned |-> StripTrailingComma(Trim(pIn.text)),
                toggles |-> Toggles(StripTrailingComma(Trim(pIn.text))),
                repaired |-> repairTruncatedJson(pIn.text),
                parsed |-> JUndef]
    /\ UNCHANGED <<mode, maxScore, studentName, pIn, pipelineVars,
                   normalizerVars, batchVars, concurrentVars,
                   files>>

\* one call of parseGradingResponse on the text
ParseText ==
    /\ mode = "parser"
    /\ ppc = "repaired"
    /\ ppc' = "parsed"
    /\ pOut' = [pOut EXCEPT !.parsed = parseGradingResponse(pIn.text)]
    /\ UNCHANGED <<mode, maxScore, studentName, pIn, pipelineVars,
                   normalizerVars, batchVars, concurrentVars,
                   files>>

\* ------------------------------------------------------------------------
\* Properties of the repair and the parse (specification SpecParser)
\* ------------------------------------------------------------------------
\* how many delimiters a truncated text may leave open
MaxOpen == 3

\* the text without white space at its end and without a comma before that
DropDanglingComma(s) ==
    IF TrimRight(s) # <<>> /\ TrimRight(s)[Len(TrimRight(s))] = ","
    THEN SubSeq(TrimRight(s), 1, Len(TrimRight(s)) - 1)
    ELSE TrimRight(s)

\* the numbers of closing braces that turn the text, less a dangling comma,
\* into well-formed JSON
ClosingBraces(s) ==
    {n \in 1..MaxOpen : JsonParse(DropDanglingComma(s) \o Repeat("}", n)).ok}

\* the text with its open objects closed
ObjectsClosed(s) ==
    DropDanglingComma(s) \o Repeat("}", CHOOSE n \in ClosingBraces(s) : TRUE)

\* a prefix of an object cut after a complete value, or after the comma that
\* follows one, with only objects left open
OnlyObjectsOpen ==
    pIn.kind = "prefix" /\ ClosingBraces(pIn.text) # {}

\* C11: for an object truncated with only objects left open, the repair
\* appends one closing brace per open object and removes the dangling comma,
\* and parseGradingResponse returns the parse of that text.
C11_ObjectsClosed ==
    (ppc = "parsed" /\ OnlyObjectsOpen) =>
        /\ pOut.repaired = ObjectsClosed(pIn.text)
        /\ JsonParse(pOut.repaired).ok
        /\ pOut.parsed = JsonParse(ObjectsClosed(pIn.text)).v

\* the text has an opening brace
HasBrace(s) == \E i \in 1..Len(s) : s[i] = "{"

\* C15: a completion without any opening brace (inside the fenced block
\* when there is one, else in the whole trimmed text) always ends as the
\* parse-failure object with parse_error and raw_response.
C15_NoBraceFails ==
    (ppc = "parsed" /\ ~HasBrace(Unfenced(Trim(pIn.text)))) =>
        pOut.parsed = ParseFailure(pIn.text)

\* the text is a well-formed JSON object
IsJsonObject(o) == JsonParse(o).ok /\ JsonParse(o).v.t = "obj"

\* the text has no opening brace and no fence
PlainCommentary(p) == ~HasBrace(p) /\ FindSub(p, Fence, 1) = 0

\* the text was built as commentary followed by an object, bare or fenced
CommentaryThenObject ==
    /\ pIn.kind \in {"commentary", "fenced"}
    /\ IsJsonObject(pIn.doc)
    /\ PlainCommentary(Commentary)

\* C16: for a well-formed JSON object O and commentary P without brace or
\* fence, parseGradingResponse(P + O) and parseGradingResponse(P + fence(O))
\* both return O.
C16_CommentaryDropped ==
    (ppc = "parsed" /\ CommentaryThenObject) => pOut.parsed = JsonParse(pIn.doc).v

\* how many backslashes stand in a row right before position i
BackslashesBefore(s, i) ==
    LET starts == {k \in 1..i : \A j \in k..(i - 1) : s[j] = "\\"}
    IN  i - CHOOSE k \in starts : \A m \in starts : k <= m

\* the quotes that are not escaped: an even number of backslashes before them
UnescapedQuotes(s) ==
    {i \in 1..Len(s) : s[i] = "\"" /\ BackslashesBefore(s, i) % 2 = 0}

\* C17: in the scans of repairTruncatedJson a double quote toggles the
\* inside-string state exactly when an even number of backslashes precedes
\* it: an escaped quote never toggles, and the quote after an escaped
\* backslash does.
C17_QuoteToggles ==
    ppc # "input" => pOut.toggles = UnescapedQuotes(pOut.scanned)

\* p is a prefix of s
IsPrefix(p, s) == Len(p) <= Len(s) /\ SubSeq(s, 1, Len(p)) = p

\* the text ends inside a string literal
EndsInString(s) == Cardinality(UnescapedQuotes(s)) % 2 = 1

\* a document cut inside one of its strings
CutInsideString == pIn.kind = "prefix" /\ EndsInString(pIn.text)

\* C18: the unterminated string is closed before any trailing comma is
\* stripped: the repair of a candidate cut inside a string keeps every
\* character of the candidate, a comma right before the cut included.
C18_StringContentKept ==
    (ppc # "input" /\ CutInsideString) => IsPrefix(pIn.text, pOut.repaired)

\* the sequences of at most MaxOpen closing delimiters
Closers == UNION {[1..n -> {"]", "}"}] : n \in 0..MaxOpen}

\* the closers that make the text a well-formed JSON value
FittingClosers(s) == {c \in Closers : JsonParse(s \o c).ok}

\* the text has no backslash
NoBackslash(s) == \A i \in 1..Len(s) : s[i] # "\\"

\* a document cut outside its strings after a complete value: closing its
\* open objects and arrays innermost-first makes it well-formed
CutAfterValue ==
    /\ pIn.kind = "prefix"
    /\ ~EndsInString(pIn.text)
    /\ NoBackslash(pIn.text)
    /\ FittingClosers(pIn.text) # {}

\* C19: for a prefix of a well-formed object cut outside any string after a
\* complete value, whatever the nesting of objects and arrays, the closers
\* the repair appends close the open delimiters innermost-first and the
\* repaired text parses.
C19_NestingClosed ==
    (ppc # "input" /\ CutAfterValue) =>
        /\ JsonParse(pOut.repaired).ok
        /\ \E c \in FittingClosers(pIn.text) : pOut.repaired = pIn.text \o c

\* position i of the text lies outside every string literal
OutsideString(s, i) ==
    Cardinality({q \in UnescapedQuotes(s) : q < i}) % 2 = 0

\* how often the character stands outside the string literals of the text
CountOutside(s, c) ==
    Cardinality({i \in 1..Len(s) : s[i] = c /\ OutsideString(s, i)})

\* braces and brackets outside strings are balanced, no string is left
\* open and the text does not end in a comma
NotTruncated(s) ==
    /\ CountOutside(s, "{") = CountOutside(s, "}")
    /\ CountOutside(s, "[") = CountOutside(s, "]")
    /\ ~EndsInString(s)
    /\ s # <<>> => s[Len(s)] # ","

\* C20: a candidate with balanced braces and brackets outside strings, no
\* unterminated string and no trailing comma is returned by the repair
\* trimmed and otherwise unchanged, so that a balanced candidate that is not
\* well-formed JSON ends as the parse-failure object.
C20_BalancedUnchanged ==
    /\ (ppc # "input" /\ NotTruncated(Trim(pIn.text))) =>
           pOut.repaired = Trim(pIn.text)
    /\ (/\ ppc = "parsed"
        /\ NotTruncated(Candidate(pIn.text))
        /\ ~Attempt1(Candidate(pIn.text)).ok
        /\ ~JsonParse(Candidate(pIn.text)).ok) =>
           pOut.parsed = ParseFailure(pIn.text)

NoParserInput == [kind |-> "none", doc |-> <<>>, text |-> <<>>]
NoParserOutput ==
    [scanned |-> <<>>, toggles |-> {}, repaired |-> <<>>, parsed |-> JUndef]
\* ------------------------------------------------------------------------
\* POST /grade/batch (src/src/routes/grading.js)
\* ------------------------------------------------------------------------
\* how many files a batch request uploads at most
MaxFiles == 2

\* originalname of the i-th file: a name and an extension
FileNames ==
    <<<<"a", "m", "y", ".", "t", "x", "t">>,
      <<"b", "o", ".", "v", "2", ".", "m", "d">>,
      <<"c", "y">>>>

\* the index of the last "." of a file name, 0 without one
LastDot(name) ==
    IF \E i \in 1..Len(name) : name[i] = "."
    THEN CHOOSE i \in 1..Len(name) :
             name[i] = "." /\ \A j \in (i + 1)..Len(name) : name[j] # "."
    ELSE 0

\* path.extname of a name without directories: from the last "." on, empty
\* when there is none or when it is the first character
ExtName(name) ==
    IF LastDot(name) > 1 THEN SubSeq(name, LastDot(name), Len(name)) ELSE <<>>

\* path.basename(originalname, path.extname(originalname)), line 374
StudentNameOf(originalname) ==
    SubSeq(originalname, 1, Len(originalname) - Len(ExtName(originalname)))

\* the uploads: each file can be read by parseFile, or not
Uploads ==
    UNION {{[i \in 1..n |-> [originalname |-> FileNames[i], readable |-> r[i]]] :
               r \in [1..n -> BOOLEAN]} : n \in 0..MaxFiles}

\* the completions a batch run draws from
BatchCompletions == {T_good, T_prose, T_null}

\* saveResult gives an insert id; without a database, or when it throws,
\* dbId stays null
DbIds == {"null", "id"}

\* gradeSubmission up to line 555, as a value: what it does with the first
\* completion
FirstNormalized(res) ==
    IF res.t \in {"null", "undef"} THEN [kind |-> "throw", results |-> JUndef]
    ELSE IF Truthy(GetProp(res, K_parse_error))
    THEN [kind |-> "retry", results |-> res]
    ELSE IF FormatThrows(res) THEN [kind |-> "throw", results |-> JUndef]
    ELSE [kind |-> "final", results |-> res]

FirstParsed(parsed, m, name) ==
    IF ValidateThrows(parsed) THEN [kind |-> "throw", results |-> JUndef]
    ELSE FirstNormalized(validateAndClampResults(parsed, m, name))

GradeFirst(text, m, name) == FirstParsed(parseGradingResponse(text), m, name)

\* lines 578-598 as a value: what it does with the retry completion
RetryNormalized(first, firstText, retryResults) ==
    IF retryResults.t \in {"null", "undef"}
    THEN [kind |-> "throw", results |-> JUndef]
    ELSE IF Truthy(GetProp(retryResults, K_parse_error))
    THEN [kind |-> "final",
          results |-> SetProp(first, K_raw_response, JStr(firstText))]
    ELSE IF FormatThrows(retryResults) THEN [kind |-> "throw", results |-> JUndef]
    ELSE [kind |-> "final", results |-> retryResults]

RetryParsed(first, firstText, parsed, m, name) ==
    IF ValidateThrows(parsed) THEN [kind |-> "throw", results |-> JUndef]
    ELSE RetryNormalized(first, firstText, validateAndClampResults(parsed, m, name))

GradeRetry(first, firstText, text, m, name) ==
    RetryParsed(first, firstText, parseGradingResponse(text), m, name)

\* the entries pushed to the array results of the route
ErrorEntry(file, message) ==
    [studentName |-> StudentNameOf(file.originalname),
     filename |-> file.originalname,
     kind |-> "error", error |-> message, id |-> "none", results |-> JUndef]

ResultEntry(file, dbId, res) ==
    [studentName |-> StudentNameOf(file.originalname),
     filename |-> file.originalname,
     kind |-> "result", error |-> "none", id |-> dbId, results |-> res]

\* the loop iteration of a file: where it stands, and what gradeSubmission
\* holds of the first completion
Iteration(pos, firstText, first, outcome) ==
    [pos |-> pos, firstText |-> firstText, first |-> first, outcome |-> outcome]

WaitingIteration == Iteration("Waiting", NoText, JUndef, "none")

\* the iteration of file i ends: its entry is pushed
EndIteration(i, outcome, entry) ==
    /\ iter' = [iter EXCEPT ![i] = Iteration("Done", NoText, JUndef, outcome)]
    /\ data' = Append(data, entry)


\* ------------------------------------------------------------------------
\* The batch route, one step per await (specification SpecBatch)
\* ------------------------------------------------------------------------
\* req.files: the temp files multer wrote for the request, one per uploaded
\* file of the fields submissions and instructions
ReqFiles(subs, instr) ==
    {[field |-> "submissions", n |-> i] : i \in 1..Len(subs)}
        \cup (IF instr = "missing" THEN {}
              ELSE {[field |-> "instructions", n |-> 1]})

\* lines 45-55: every file of req.files is unlinked
cleanupFiles(reqFiles) == files' = files \ reqFiles

\* res.status(s).json(...)
Send(s, ok, entries) == response' = [status |-> s, success |-> ok, data |-> entries]

\* lines 327-329 and 349-351: the request is turned away
RejectRequest ==
    /\ mode = "batch"
    /\ response.status = 0
    /\ Len(submissions) = 0 \/ instructions = "missing"
    /\ Send(400, FALSE, <<>>)
    /\ UNCHANGED <<mode, maxScore, studentName, pipelineVars, normalizerVars,
                   parserVars, concurrentVars,
                   files, submissions, instructions, iter, data>>

\* line 346: parseFile of the instructions file throws, and the catch of the
\* handler answers (lines 427-434)
FailRequest ==
    /\ mode = "batch"
    /\ response.status = 0
    /\ Len(submissions) > 0
    /\ instructions = "unreadable"
    /\ cleanupFiles(ReqFiles(submissions, instructions))
    /\ Send(500, FALSE, <<>>)
    /\ UNCHANGED <<mode, maxScore, studentName, pipelineVars, normalizerVars,
                   parserVars, concurrentVars,
                   submissions, instructions, iter, data>>

\* the for loop is entered
LoopEntered == Len(submissions) > 0 /\ instructions = "given"

\* a variant of LoopReaches that starts the iteration of every file at once
LoopReachesAll(i) == i \in 1..Len(submissions)

\* line 373: for ... of with awaits in its body reaches file i when the
\* iterations of the files before it have ended
LoopReaches(i) == \A j \in 1..(i - 1) : iter[j].pos = "Done"

\* a variant of CatchSubmission without the try of the loop body: the error
\* reaches the catch of the handler
AbortBatch(i, outcome, message) ==
    /\ iter' = [iter EXCEPT ![i] = Iteration("Done", NoText, JUndef, outcome)]
    /\ Send(500, FALSE, <<>>)
    /\ UNCHANGED data

\* lines 411-417: the catch of the loop body pushes an entry with the message
CatchSubmission(i, outcome, message) ==
    /\ EndIteration(i, outcome, ErrorEntry(submissions[i], message))
    /\ UNCHANGED response

\* lines 396-410: the result is saved if a database is there, and pushed
PushResult(i, res) ==
    /\ \E dbId \in DbIds : EndIteration(i, "graded", ResultEntry(submissions[i], dbId, res))
    /\ UNCHANGED response

\* line 380: parseFile throws on the file of iteration i
ReadFails(i) ==
    /\ mode = "batch"
    /\ response.status = 0
    /\ LoopEntered
    /\ iter[i].pos = "Waiting"
    /\ LoopReaches(i)
    /\ ~submissions[i].readable
    /\ CatchSubmission(i, "unreadable", "ParseFileError")
    /\ UNCHANGED <<mode, maxScore, studentName, pipelineVars, normalizerVars,
                   parserVars, concurrentVars,
                   files, submissions, instructions>>

\* lines 380-383 and, in gradeSubmission, 520-549: the file is read and the
\* first backend call is issued
BeginGrading(i) ==
    /\ mode = "batch"
    /\ response.status = 0
    /\ LoopEntered
    /\ iter[i].pos = "Waiting"
    /\ LoopReaches(i)
    /\ submissions[i].readable
    /\ iter' = [iter EXCEPT ![i] = Iteration("Call1", NoText, JUndef, "none")]
    /\ UNCHANGED <<mode, maxScore, studentName, pipelineVars, normalizerVars,
                   parserVars, concurrentVars,
                   files, submissions, instructions, data, response>>

\* the first call of iteration i fails
FirstCallFails(i) ==
    /\ mode = "batch"
    /\ response.status = 0
    /\ iter[i].pos = "Call1"
    /\ CatchSubmission(i, "backend", "BackendError")
    /\ UNCHANGED <<mode, maxScore, studentName, pipelineVars, normalizerVars,
                   parserVars, concurrentVars,
                   files, submissions, instructions>>

\* gradeSubmission of iteration i after its first completion
AfterFirstCompletion(i, text, first) ==
    IF first.kind = "throw" THEN CatchSubmission(i, "threw", "TypeError")
    ELSE IF first.kind = "retry"
    THEN /\ iter' = [iter EXCEPT ![i] = Iteration("Call2", text, first.results, "none")]
         /\ UNCHANGED <<data, response>>
    ELSE PushResult(i, first.results)

\* the first call of iteration i returns: lines 551-576 or 551-598
FirstCallReturns(i) ==
    /\ mode = "batch"
    /\ response.status = 0
    /\ iter[i].pos = "Call1"
    /\ \E text \in BatchCompletions :
           AfterFirstCompletion(i, Completion(backend, text),
               GradeFirst(Completion(backend, text), maxScore,
                          StudentNameOf(submissions[i].originalname)))
    /\ UNCHANGED <<mode, maxScore, studentName, pipelineVars, normalizerVars,
                   parserVars, concurrentVars,
                   files, submissions, instructions>>

\* the retry call of iteration i fails
RetryCallFails(i) ==
    /\ mode = "batch"
    /\ response.status = 0
    /\ iter[i].pos = "Call2"
    /\ CatchSubmission(i, "backend", "BackendError")
    /\ UNCHANGED <<mode, maxScore, studentName, pipelineVars, normalizerVars,
                   parserVars, concurrentVars,
                   files, submissions, instructions>>

\* gradeSubmission of iteration i after its retry completion
AfterRetryCompletion(i, second) ==
    IF second.kind = "throw" THEN CatchSubmission(i, "threw", "TypeError")
    ELSE PushResult(i, second.results)

\* the retry call of iteration i returns: lines 578-598
RetryCallReturns(i) ==
    /\ mode = "batch"
    /\ response.status = 0
    /\ iter[i].pos = "Call2"
    /\ \E text \in BatchCompletions :
           AfterRetryCompletion(i,
               GradeRetry(iter[i].first, iter[i].firstText,
                          Completion(backend, text), maxScore,
                          StudentNameOf(submissions[i].originalname)))
    /\ UNCHANGED <<mode, maxScore, studentName, pipelineVars, normalizerVars,
                   parserVars, concurrentVars,
                   files, submissions, instructions>>

\* lines 420-426: after the loop the files are removed and the response sent
Respond ==
    /\ mode = "batch"
    /\ response.status = 0
    /\ LoopEntered
    /\ \A i \in 1..Len(submissions) : iter[i].pos = "Done"
    /\ cleanupFiles(ReqFiles(submissions, instructions))
    /\ Send(200, TRUE, data)
    /\ UNCHANGED <<mode, maxScore, studentName, pipelineVars, normalizerVars,
                   parserVars, concurrentVars,
                   submissions, instructions, iter, data>>

\* ------------------------------------------------------------------------
\* Concurrent invocations in one process (specification SpecConcurrent)
\* ------------------------------------------------------------------------
\* the largest number of gradeSubmission invocations in flight
MaxInvocations == 2

\* Date.now() takes the values 0..MaxClock
MaxClock == 1

\* the studentName argument of the i-th invocation: every caller passes its own
InvocationNames ==
    <<(<<"S", "a", "m">>), (<<"J", "\"", "o">>), (<<>>), (<<"L", "e", "e">>)>>

NoPath == [time |-> 0, pid |-> "none"]

\* line 462: cursor-prompt-${Date.now()}-${process.pid}.txt in os.tmpdir();
\* every invocation of one process has the same pid
TempPath(t) == [time |-> t, pid |-> "process.pid"]

\* what cat prints for a file that is not there
NoPrompt ==
    [template |-> "none", instructions |-> FALSE, studentName |-> <<>>,
     maxScore |-> 0, text |-> <<>>]

\* fs.writeFileSync(tempPath, prompt): the file is created or overwritten
WriteFile(fs, path, content) ==
    {f \in fs : f.path # path} \cup {[path |-> path, content |-> content]}

\* $(cat "$CURSOR_PROMPT_FILE"): what the agent is started with
ReadFile(fs, path) ==
    IF \E f \in fs : f.path = path
    THEN (CHOOSE f \in fs : f.path = path).content
    ELSE NoPrompt

\* fs.unlinkSync(tempPath) in the finally of getCompletionFromCursor
Unlink(fs, path) == {f \in fs : f.path # path}

\* one gradeSubmission invocation: its arguments, where it stands, its locals
\* (the first reply and what was parsed from it, the results) and, kept for
\* the properties, the requests as its backend received them and the replies
Invocation(b, name, pos, path, received, replies, first, res) ==
    [backend |-> b, name |-> name, pos |-> pos, path |-> path,
     received |-> received, replies |-> replies, first |-> first,
     results |-> res]

\* the invocation i with its position, path, requests, replies and locals
\* replaced
Moved(i, pos, path, received, replies, first, res) ==
    [inv EXCEPT ![i] = Invocation(inv[i].backend, inv[i].name, pos, path,
                                  received, replies, first, res)]

\* the request the agent was started with: the prompt it read from the file
CursorRequest(content) == [to |-> "cursor", messages |-> <<Message("prompt", content)>>]

\* a variant of EventLoopFree for a child process started without blocking
EventLoopNeverBlocked == TRUE

\* line 474: execSync blocks the event loop of the process until the agent
\* exits, so no other JavaScript runs while an invocation is inside it
EventLoopFree == \A j \in 1..Len(inv) : inv[j].pos \notin {"Exec1", "Exec2"}

\* time passes
Tick ==
    /\ mode = "concurrent"
    /\ now < MaxClock
    /\ now' = now + 1
    /\ UNCHANGED <<mode, maxScore, studentName, pipelineVars, normalizerVars,
                   parserVars, batchVars, files, inv>>

\* a caller invokes gradeSubmission with backend ollama: lines 520-548, up
\* to the await of ollama.chat
CallOllama ==
    /\ mode = "concurrent"
    /\ Len(inv) < MaxInvocations
    /\ EventLoopFree
    /\ inv' = Append(inv,
           Invocation("ollama", InvocationNames[Len(inv) + 1], "Call1", NoPath,
               <<FirstRequest("ollama", maxScore, InvocationNames[Len(inv) + 1])>>,
               <<>>, JUndef, JUndef))
    /\ UNCHANGED <<mode, maxScore, studentName, pipelineVars, normalizerVars,
                   parserVars, batchVars, files, now>>

\* a caller invokes gradeSubmission with backend cursor: lines 520-536 and
\* 461-474, up to the start of the agent
CallCursor ==
    /\ mode = "concurrent"
    /\ Len(inv) < MaxInvocations
    /\ EventLoopFree
    /\ files' = WriteFile(files, TempPath(now),
                          GradingPrompt(maxScore, InvocationNames[Len(inv) + 1]))
    /\ inv' = Append(inv,
           Invocation("cursor", InvocationNames[Len(inv) + 1], "Exec1",
                      TempPath(now), <<>>, <<>>, JUndef, JUndef))
    /\ UNCHANGED <<mode, maxScore, studentName, pipelineVars, normalizerVars,
                   parserVars, batchVars, now>>

\* ollama.chat of invocation i rejects: the error leaves gradeSubmission
OllamaFails(i) ==
    /\ mode = "concurrent"
    /\ inv[i].pos \in {"Call1", "Call2"}
    /\ EventLoopFree
    /\ inv' = Moved(i, "Failed", NoPath, inv[i].received, inv[i].replies,
                    JUndef, JUndef)
    /\ UNCHANGED <<mode, maxScore, studentName, pipelineVars, normalizerVars,
                   parserVars, batchVars, files, now>>

\* lines 551-576 with backend ollama, for the first reply text
OllamaAfterFirst(i, text, g) ==
    IF g.kind = "throw"
    THEN inv' = Moved(i, "Threw", NoPath, inv[i].received, <<text>>, JUndef, JUndef)
    ELSE IF g.kind = "retry"
    THEN inv' = Moved(i, "Call2", NoPath,
                      Append(inv[i].received,
                             RetryRequest("ollama", maxScore, inv[i].name, text)),
                      <<text>>, g.results, JUndef)
    ELSE inv' = Moved(i, "Done", NoPath, inv[i].received, <<text>>, JUndef, g.results)

\* the first ollama.chat of invocation i resolves
OllamaFirstReturns(i) ==
    /\ mode = "concurrent"
    /\ inv[i].pos = "Call1"
    /\ EventLoopFree
    /\ \E text \in BatchCompletions :
           OllamaAfterFirst(i, text, GradeFirst(text, maxScore, inv[i].name))
    /\ UNCHANGED <<mode, maxScore, studentName, pipelineVars, normalizerVars,
                   parserVars, batchVars, files, now>>

\* lines 578-598, for the retry reply text
InvocationAfterRetry(i, received, text, g) ==
    IF g.kind = "throw"
    THEN inv' = Moved(i, "Threw", NoPath, received, Append(inv[i].replies, text),
                      JUndef, JUndef)
    ELSE inv' = Moved(i, "Done", NoPath, received, Append(inv[i].replies, text),
                      JUndef, g.results)

\* the retry ollama.chat of invocation i resolves
OllamaRetryReturns(i) ==
    /\ mode = "concurrent"
    /\ inv[i].pos = "Call2"
    /\ EventLoopFree
    /\ \E text \in BatchCompletions :
           InvocationAfterRetry(i, inv[i].received, text,
               GradeRetry(inv[i].first, inv[i].replies[1], text, maxScore,
                          inv[i].name))
    /\ UNCHANGED <<mode, maxScore, studentName, pipelineVars, normalizerVars,
                   parserVars, batchVars, files, now>>

\* lines 482-502: the agent of invocation i exits with an error; the file is
\* unlinked and the error leaves gradeSubmission
ExecFails(i) ==
    /\ mode = "concurrent"
    /\ inv[i].pos \in {"Exec1", "Exec2"}
    /\ inv' = Moved(i, "Failed", NoPath,
                    Append(inv[i].received,
                           CursorRequest(ReadFile(files, inv[i].path))),
                    inv[i].replies, JUndef, JUndef)
    /\ files' = Unlink(files, inv[i].path)
    /\ UNCHANGED <<mode, maxScore, studentName, pipelineVars, normalizerVars,
                   parserVars, batchVars, now>>

\* lines 551-564 with backend cursor, for the first reply text: the retry
\* writes its prompt file and starts the agent without leaving the event loop
CursorAfterFirst(i, received, text, g) ==
    IF g.kind = "throw"
    THEN /\ inv' = Moved(i, "Threw", NoPath, received, <<text>>, JUndef, JUndef)
         /\ files' = Unlink(files, inv[i].path)
    ELSE IF g.kind = "retry"
    THEN /\ inv' = Moved(i, "Exec2", TempPath(now), received, <<text>>,
                         g.results, JUndef)
         /\ files' = WriteFile(Unlink(files, inv[i].path), TempPath(now),
                               CorrectionPrompt(maxScore, inv[i].name))
    ELSE /\ inv' = Moved(i, "Done", NoPath, received, <<text>>, JUndef, g.results)
         /\ files' = Unlink(files, inv[i].path)

\* lines 474-478 and 497-502: the first agent of invocation i exits with its
\* reply; the file is unlinked
ExecFirstReturns(i) ==
    /\ mode = "concurrent"
    /\ inv[i].pos = "Exec1"
    /\ \E text \in BatchCompletions :
           CursorAfterFirst(i,
               Append(inv[i].received, CursorRequest(ReadFile(files, inv[i].path))),
               Completion("cursor", text),
               GradeFirst(Completion("cursor", text), maxScore, inv[i].name))
    /\ UNCHANGED <<mode, maxScore, studentName, pipelineVars, normalizerVars,
                   parserVars, batchVars, now>>

\* the retry agent of invocation i exits with its reply
ExecRetryReturns(i) ==
    /\ mode = "concurrent"
    /\ inv[i].pos = "Exec2"
    /\ \E text \in BatchCompletions :
           InvocationAfterRetry(i,
               Append(inv[i].received, CursorRequest(ReadFile(files, inv[i].path))),
               Completion("cursor", text),
               GradeRetry(inv[i].first, inv[i].replies[1],
                          Completion("cursor", text), maxScore, inv[i].name))
    /\ files' = Unlink(files, inv[i].path)
    /\ UNCHANGED <<mode, maxScore, studentName, pipelineVars, normalizerVars,
                   parserVars, batchVars, now>>

\* the corrective prompt as the claim describes it: it echoes studentName
\* (or "Anonymous") and maxScore and holds no grading instructions
IsCorrective(content) ==
    /\ content.template = "correction"
    /\ ~content.instructions
    /\ content.maxScore = maxScore
    /\ content.studentName =
           (IF studentName = <<>> THEN Anonymous
            ELSE IF studentName = <<"J", "\"", "o">> THEN <<"J", "\\", "\"", "o">>
            ELSE studentName)

\* the original prompt: the one the first request carried
IsOriginal(content) == content = sent[1].messages[1].content

\* C26: the retry goes out as the conversation user: original prompt,
\* assistant: first raw reply, user: corrective prompt when the backend is
\* ollama, and as a single prompt holding only the corrective prompt when it
\* is cursor; the corrective prompt echoes studentName (or "Anonymous") and
\* maxScore and does not hold the grading instructions.
C26_RetryConversation ==
    Len(sent) >= 2 =>
        LET ms == sent[2].messages
        IN  IF backend = "cursor"
            THEN /\ sent[2].to = "cursor"
                 /\ Len(ms) = 1
                 /\ IsCorrective(ms[1].content)
            ELSE /\ sent[2].to = "ollama"
                 /\ Len(ms) = 3
                 /\ ms[1].role = "user" /\ IsOriginal(ms[1].content)
                 /\ ms[1].content.instructions
                 /\ ms[2].role = "assistant" /\ ms[2].content.text = responseText
                 /\ ms[2].content.template = "reply"
                 /\ ms[3].role = "user" /\ IsCorrective(ms[3].content)

\* the retry of an ollama run for a student whose name holds a quote
C26_Witness ==
    /\ Len(sent) = 2
    /\ backend = "ollama"
    /\ studentName = <<"J", "\"", "o">>
    /\ responseText = T_prose
    /\ Len(sent[2].messages) = 3
    /\ sent[2].messages[2].content.text = T_prose
    /\ pc = "Finalized"

\* the state of the invocation in the words of the state machine: while a
\* backend call is outstanding the invocation is still in the state that
\* issued it, and a backend error that left gradeSubmission is "BackendError"
MachineState(p, e) ==
    CASE p = "Call1" -> "NotStarted"
      [] p = "Call2" -> "NeedsRetry"
      [] p = "Failed" -> e
      [] OTHER -> p

\* the transitions of the state machine, and the propagation of a backend
\* error from either call
MachineSteps ==
    {<<"NotStarted", "Attempt1Done">>, <<"Attempt1Done", "Finalized">>,
     <<"Attempt1Done", "NeedsRetry">>, <<"NeedsRetry", "RetryDone">>,
     <<"RetryDone", "Finalized">>,
     <<"NotStarted", "BackendError">>, <<"NeedsRetry", "BackendError">>}

\* C27: an invocation of gradeSubmission takes only the transitions
\* NotStarted -> Attempt1Done -> (Finalized | NeedsRetry), NeedsRetry ->
\* RetryDone -> Finalized, ends only as Finalized with a returned value or
\* with a propagated backend error, revisits no state and retries once.
C27_StateMachine ==
    [][ \/ MachineState(pc', error') = MachineState(pc, error)
        \/ /\ <<MachineState(pc, error), MachineState(pc', error')>> \in MachineSteps
           /\ MachineState(pc', error') = "Finalized" => returned' ]_vars

\* ------------------------------------------------------------------------
\* Properties of the batch route (specification SpecBatch)
\* ------------------------------------------------------------------------
\* the iterations with a completion-backend call outstanding
OutstandingCalls == {i \in 1..Len(iter) : iter[i].pos \in {"Call1", "Call2"}}

\* the iteration of file i has started
Started(i) == iter[i].pos # "Waiting"

\* C13: in a batch request the submissions are graded one at a time in
\* upload order: the grading of a submission has not started while an
\* earlier one is unfinished, and at most one completion-backend call is
\* outstanding at any moment.
C13_OneAtATime ==
    /\ Cardinality(OutstandingCalls) <= 1
    /\ \A i \in 1..Len(iter) :
           Started(i) => \A j \in 1..(i - 1) : iter[j].pos = "Done"

\* the first file has been graded and the retry call of the second one is
\* outstanding
C13_Witness ==
    /\ Len(iter) >= 2
    /\ iter[1].outcome = "graded"
    /\ iter[2].pos = "Call2"

\* the entry of file i in the response is the one the route builds for it
EntryOf(i) ==
    LET e == response.data[i]
        f == submissions[i]
    IN  /\ e.filename = f.originalname
        /\ e.studentName = StudentNameOf(f.originalname)
        /\ iter[i].outcome \in {"unreadable", "backend", "threw"} =>
               e.kind = "error" /\ e.error # "none"
        /\ iter[i].outcome = "graded" =>
               e.kind = "result" /\ e.error = "none" /\ e.results.t = "obj"

\* C14: when the file or the grading of a submission fails, the batch goes
\* on: the response has success true and one entry per uploaded file in
\* upload order, a failed submission's entry carrying studentName, filename
\* and error, a graded one carrying its grading result.
C14_FailuresIsolated ==
    (LoopEntered /\ response.status # 0) =>
        /\ response.status = 200
        /\ response.success
        /\ Len(response.data) = Len(submissions)
        /\ \A i \in 1..Len(submissions) :
               iter[i].pos = "Done" /\ iter[i].outcome # "none" /\ EntryOf(i)

\* the backend call of the first file failed, the second file was graded,
\* and the response carries both
C14_Witness ==
    /\ response.status = 200
    /\ Len(response.data) = 2
    /\ iter[1].outcome = "backend"
    /\ response.data[1].kind = "error"
    /\ response.data[1].studentName = <<"a", "m", "y">>
    /\ iter[2].outcome = "graded"
    /\ response.data[2].kind = "result"
    /\ response.data[2].studentName = <<"b", "o", ".", "v", "2">>

NoResponse == [status |-> 0, success |-> FALSE, data |-> <<>>]

\* the feedback texts of the generated rubrics that mention a deficit: "Good,
\* BUT short" holds the keyword but in capitals; "Excellent." holds none and
\* "Rebuttal ok" holds one only inside a longer word
MentionsDeficit(feedback) == feedback = F_deficit

\* the criteria of the input as they stand after the rescale (lines 310-344)
RescaledInput ==
    Rescale(GetProp(vIn, K_rubric_breakdown), CriteriaOf(vIn), maxScore)

\* the score the detector must leave in a criterion
ScoreAfterDetector(details) ==
    IF /\ GetProp(details, K_score).t = "num"
       /\ GetProp(details, K_max_points).t = "num"
       /\ GetProp(details, K_score).n = GetProp(details, K_max_points).n
       /\ MentionsDeficit(GetProp(details, K_feedback).s)
    THEN JNum(IF GetProp(details, K_score).n > 1
              THEN GetProp(details, K_score).n - 1 ELSE 0)
    ELSE GetProp(details, K_score)

\* C12: for every criterion with a numeric score and max_points and a string
\* feedback, the score that reaches the clamp is the rescaled score less 1
\* (floor 0) when that score equals max_points and the feedback matches a
\* deficiency pattern, whatever its case, and the rescaled score itself when
\* the feedback matches no pattern or the score differs from max_points.
C12_DetectorDecrements ==
    vpc = "done" =>
        LET rescaled == RescaledInput
            final == CriteriaOf(vOut)
        IN  \A i \in 1..Len(rescaled) :
                BothNumeric(rescaled[i]) =>
                    GetProp(final[i], K_score) =
                        ClampedScore(ScoreAfterDetector(rescaled[i]),
                                     GetProp(rescaled[i], K_max_points))

\* a full score with a deficit in its feedback came out one lower
C12_Witness ==
    /\ vpc = "done"
    /\ \E i \in 1..Len(RescaledInput) :
          /\ GetProp(RescaledInput[i], K_score) = JNum(MaxPts)
          /\ GetProp(RescaledInput[i], K_max_points) = JNum(MaxPts)
          /\ GetProp(RescaledInput[i], K_feedback) = JStr(F_deficit)
          /\ GetProp(CriteriaOf(vOut)[i], K_score) = JNum(MaxPts - 1)

\* the rescale is skipped: rawMaxSum == maxScore or rawMaxSum <= 0
RescaleSkipped ==
    /\ Truthy(GetProp(vIn, K_rubric_breakdown))
    /\ InputRawMaxSum.t = "num"
    /\ (InputRawMaxSum.n = maxScore \/ InputRawMaxSum.n <= 0)

\* the sum of the scores of the criteria with a numeric score and max_points
\* of the result, as a number
OutScoreSum == SumScores(CriteriaOf(vOut), 1).n

\* total_score, max_score and percentage of the result are the ones the last
\* step computes from the scores of the result
TotalsRecomputed ==
    LET total == IF OutScoreSum > maxScore THEN maxScore ELSE OutScoreSum
        pct == RoundDiv(total * 100, maxScore)
    IN  /\ GetProp(vOut, K_total_score) = JNum(total)
        /\ GetProp(vOut, K_max_score) = JNum(maxScore)
        /\ GetProp(vOut, K_percentage) = JNum(IF pct > 100 THEN 100 ELSE pct)

\* C21: when rawMaxSum == maxScore or rawMaxSum <= 0 the rescale is skipped:
\* every criterion keeps the max_points it was parsed with, its score is
\* changed only by the contradiction detector and the clamp, and total_score,
\* max_score and percentage are recomputed all the same.
C21_RescaleSkipped ==
    (vpc = "done" /\ RescaleSkipped) =>
        LET in == CriteriaOf(vIn)
            out == CriteriaOf(vOut)
        IN  /\ Len(out) = Len(in)
            /\ \A i \in 1..Len(in) :
                 /\ GetProp(out[i], K_max_points) = GetProp(in[i], K_max_points)
                 /\ GetProp(out[i], K_feedback) = GetProp(in[i], K_feedback)
                 /\ GetProp(out[i], K_score) =
                        IF BothNumeric(in[i])
                        THEN ClampedScore(ScoreAfterDetector(in[i]),
                                          GetProp(in[i], K_max_points))
                        ELSE GetProp(in[i], K_score)
            /\ TotalsRecomputed

\* two criteria whose max_points sum to maxScore, one with max_points 0,
\* and a score cut by the clamp
C21_Witness ==
    /\ vpc = "done"
    /\ RescaleSkipped
    /\ InputRawMaxSum.n = maxScore
    /\ Len(CriteriaOf(vIn)) = 2
    /\ GetProp(CriteriaOf(vIn)[1], K_max_points) = JNum(0)
    /\ GetProp(CriteriaOf(vIn)[1], K_score) = JNum(1)
    /\ GetProp(CriteriaOf(vOut)[1], K_score) = JNum(0)
    /\ GetProp(CriteriaOf(vOut)[2], K_max_points) = JNum(maxScore)

\* the rescale runs: rawMaxSum > 0 and rawMaxSum != maxScore
RescaleRuns ==
    InputRawMaxSum.t = "num"
        /\ InputRawMaxSum.n > 0 /\ InputRawMaxSum.n # maxScore

\* round(old_max / rawMaxSum * maxScore)
RoundedMax(oldMax) == RoundDiv(oldMax * maxScore, InputRawMaxSum.n)

\* C22: when the rescale runs, a criterion with numeric score and non-zero
\* numeric max_points gets new_score = round(old_score / old_max * new_max)
\* with new_max = round(old_max / rawMaxSum * maxScore), and a criterion
\* whose old max_points is 0 or not a number is skipped: the rescale leaves
\* its score and max_points as they were and its score stays a finite number.
C22_RescaleFormula ==
    (vpc = "done" /\ RescaleRuns) =>
        \A i \in 1..Len(CriteriaOf(vIn)) :
            LET om == GetProp(CriteriaOf(vIn)[i], K_max_points)
                os == GetProp(CriteriaOf(vIn)[i], K_score)
                r == RescaledInput[i]
            IN  /\ (om.t = "num" /\ om.n # 0 /\ os.t = "num") =>
                       GetProp(r, K_score) =
                           JNum(RoundDiv(os.n * RoundedMax(om.n), om.n))
                /\ (om.t # "num" \/ om.n = 0) =>
                       /\ GetProp(r, K_score) = os
                       /\ GetProp(r, K_max_points) = om

\* the rounded new max_points of the criteria of the input, in map order
RoundedMaxes ==
    [i \in 1..Len(CriteriaOf(vIn)) |->
        RoundedMax(GetProp(CriteriaOf(vIn)[i], K_max_points).n)]

RECURSIVE SumFrom(_, _)
SumFrom(ns, i) == IF i > Len(ns) THEN 0 ELSE ns[i] + SumFrom(ns, i + 1)

\* maxScore - sum(new_max)
Residual == maxScore - SumFrom(RoundedMaxes, 1)

\* the first criterion in map order among those with the greatest new_max
FirstGreatest ==
    CHOOSE g \in 1..Len(RoundedMaxes) :
        /\ \A j \in 1..Len(RoundedMaxes) : RoundedMaxes[j] <= RoundedMaxes[g]
        /\ \A j \in 1..(g - 1) : RoundedMaxes[j] < RoundedMaxes[g]

\* the rescale runs on a rubric of well-formed criteria for a positive
\* maxScore, and the rounded max_points do not sum to maxScore
ResidualLeft ==
    /\ RescaleRuns
    /\ maxScore > 0
    /\ WellFormedInput
    /\ Residual # 0

\* C23: when the rescaled max_points do not sum to maxScore, the whole
\* residual maxScore - sum(new_max) goes to exactly one criterion, the one
\* with the greatest new_max, the first in map order when several tie; every
\* other criterion keeps its rounded max_points.
C23_ResidualToFirstGreatest ==
    (vpc = "done" /\ ResidualLeft) =>
        \A i \in 1..Len(RoundedMaxes) :
            GetProp(RescaledInput[i], K_max_points) =
                JNum(RoundedMaxes[i] + IF i = FirstGreatest THEN Residual ELSE 0)

\* the object without its field k
Without(o, k) ==
    LET keep == {i \in 1..Len(o.ks) : o.ks[i] # k}
    IN  [o EXCEPT !.ks = [j \in 1..Cardinality(keep) |-> o.ks[Nth(keep, j)]],
                  !.vs = [j \in 1..Cardinality(keep) |-> o.vs[Nth(keep, j)]]]

\* studentName || "Anonymous"
Fallback == JStr(IF studentName # <<>> THEN studentName ELSE Anonymous)

\* the parsed object is no parse failure and has no rubric_breakdown
NoRubric ==
    /\ vIn.t = "obj"
    /\ ~Truthy(GetProp(vIn, K_parse_error))
    /\ ~Truthy(GetProp(vIn, K_rubric_breakdown))

FullMarksWithDeficit(details) ==
    /\ GetProp(details, K_score).t = "num"
    /\ GetProp(details, K_max_points).t = "num"
    /\ GetProp(details, K_max_points).n > 0
    /\ GetProp(details, K_feedback).t = "str"
    /\ MentionsDeficit(GetProp(details, K_feedback).s)
    /\ GetProp(details, K_score).n = GetProp(details, K_max_points).n

\* C25: no criterion of a result of validateAndClampResults with numeric
\* score, max_points > 0 and string feedback stands at full marks while its
\* feedback matches a deficiency pattern, whatever the parsed input was:
\* also when the parsed score exceeded max_points, also after a rescale.
C25_NoFullMarksWithDeficit ==
    (vpc = "done" /\ maxScore > 0) =>
        \A i \in 1..Len(CriteriaOf(vOut)) : ~FullMarksWithDeficit(CriteriaOf(vOut)[i])

\* the parsed rubric awards full marks on every criterion: score equals
\* max_points > 0, and the feedback names no deficit
AllFullMarks ==
    /\ Len(CriteriaOf(vIn)) > 0
    /\ \A i \in 1..Len(CriteriaOf(vIn)) :
          LET d == CriteriaOf(vIn)[i]
          IN  /\ GetProp(d, K_score).t = "num"
              /\ GetProp(d, K_max_points).t = "num"
              /\ GetProp(d, K_max_points).n > 0
              /\ GetProp(d, K_score).n = GetProp(d, K_max_points).n
              /\ GetProp(d, K_feedback).t = "str"
              /\ ~MentionsDeficit(GetProp(d, K_feedback).s)

\* C29: a parsed completion that awards full marks on every criterion is
\* still a perfect grade after validateAndClampResults, for every maxScore,
\* rescaled or not: every criterion has score == max_points, total_score
\* equals max_score and percentage is 100.
C29_PerfectStaysPerfect ==
    (vpc = "done" /\ AllFullMarks /\ maxScore > 0) =>
        /\ \A i \in 1..Len(CriteriaOf(vOut)) :
               GetProp(CriteriaOf(vOut)[i], K_score)
                   = GetProp(CriteriaOf(vOut)[i], K_max_points)
        /\ GetProp(vOut, K_total_score) = GetProp(vOut, K_max_score)
        /\ GetProp(vOut, K_percentage) = JNum(100)

\* C30: by the time the route has sent a response, on every path (200, 500,
\* and the 400 for missing submissions or missing instructions), every temp
\* file uploaded with the request has been deleted.
C30_UploadsDeleted ==
    response.status # 0 => files \cap ReqFiles(submissions, instructions) = {}

\* what an invocation returns when it runs alone with the arguments b, m,
\* name and the backend replies given
ReturnsAlone(m, name, replies) ==
    IF Len(replies) = 1 THEN GradeFirst(replies[1], m, name).results
    ELSE GradeRetry(GradeFirst(replies[1], m, name).results, replies[1],
                    replies[2], m, name).results

\* the requests the backend of an invocation receives when it runs alone
RequestsAlone(b, m, name, replies, n) ==
    IF n = 0 THEN <<>>
    ELSE IF n = 1 THEN <<FirstRequest(b, m, name)>>
    ELSE <<FirstRequest(b, m, name), RetryRequest(b, m, name, replies[1])>>

\* the invocations that hold a prompt temp file
HoldsFile(i) == inv[i].pos \in {"Exec1", "Exec2"}

\* C28: concurrent gradeSubmission invocations of one process, interleaved at
\* their backend-call suspension points, do not interfere: what each returns
\* depends only on its own arguments and replies and equals what it returns
\* alone, every request its backend receives (the conversation history, the
\* prompt read from the temp file) is its own, and no prompt temp file is
\* held by two invocations.
C28_NoInterference ==
    /\ \A i \in 1..Len(inv) :
        /\ inv[i].received =
               RequestsAlone(inv[i].backend, maxScore, inv[i].name,
                             inv[i].replies, Len(inv[i].received))
        /\ inv[i].pos = "Done" =>
               inv[i].results = ReturnsAlone(maxScore, inv[i].name, inv[i].replies)
    /\ \A i, j \in 1..Len(inv) :
           i # j /\ HoldsFile(i) /\ HoldsFile(j) => inv[i].path # inv[j].path
    /\ \A f \in files : \E i \in 1..Len(inv) : HoldsFile(i) /\ inv[i].path = f.path

\* the second invocation ran both of its cursor calls and returned while the
\* first was suspended in its retry call
C28_Witness ==
    /\ Len(inv) = 2
    /\ inv[1].pos = "Call2"
    /\ inv[2].backend = "cursor"
    /\ inv[2].pos = "Done"
    /\ Len(inv[2].received) = 2

InitCommon ==
    /\ pc = "NotStarted"
    /\ calls = 0
    /\ responseText = NoText
    /\ retryText = NoText
    /\ results = JUndef
    /\ textReport = NoReport
    /\ returned = FALSE
    /\ error = "none"
    /\ sent = <<>>
    /\ vOut = JUndef
    /\ vpc = "input"
    /\ pOut = NoParserOutput
    /\ ppc = "input"
    /\ data = <<>>
    /\ response = NoResponse
    /\ inv = <<>>
    /\ now = 0

Init ==
    /\ mode = "pipeline"
    /\ backend \in Backends
    /\ maxScore \in PipelineMaxScores
    /\ studentName \in StudentNames
    /\ vIn = JUndef
    /\ pIn = NoParserInput
    /\ submissions = <<>>
    /\ instructions = "given"
    /\ iter = <<>>
    /\ files = {}
    /\ InitCommon

Next ==
    \/ SendFirst
    \/ ReceiveFirst
    \/ FailFirst
    \/ ProcessFirst
    \/ SendRetry
    \/ ReceiveRetry
    \/ FailRetry
    \/ ProcessRetry

Spec == Init /\ [][Next]_vars

InitNormalizer ==
    /\ mode = "normalizer"
    /\ backend = "ollama"
    /\ \/ vIn \in ParsedRubrics /\ studentName = <<>>
                                /\ maxScore \in NormalizerMaxScores
       \/ vIn \in ParsedPlain /\ studentName \in StudentNames
                              /\ maxScore \in NormalizerMaxScores
       \/ vIn \in FullMarkRubrics /\ studentName = <<>>
                                  /\ maxScore \in NormalizerMaxScores \cup {DefaultMaxScore}
    /\ pIn = NoParserInput
    /\ submissions = <<>>
    /\ instructions = "given"
    /\ iter = <<>>
    /\ files = {}
    /\ InitCommon

NextNormalizer == Validate

SpecNormalizer == InitNormalizer /\ [][NextNormalizer]_vars

InitParser ==
    /\ mode = "parser"
    /\ backend = "ollama"
    /\ maxScore = DefaultMaxScore
    /\ studentName = <<>>
    /\ vIn = JUndef
    /\ pIn \in ParserInputs
    /\ submissions = <<>>
    /\ instructions = "given"
    /\ iter = <<>>
    /\ files = {}
    /\ InitCommon

NextParser == RepairText \/ ParseText

SpecParser == InitParser /\ [][NextParser]_vars

InitBatch ==
    /\ mode = "batch"
    /\ backend \in Backends
    /\ maxScore = DefaultMaxScore
    /\ studentName = <<>>
    /\ vIn = JUndef
    /\ pIn = NoParserInput
    /\ submissions \in Uploads
    /\ instructions \in {"given", "missing", "unreadable"}
    /\ iter = [i \in 1..Len(submissions) |-> WaitingIteration]
    /\ files = ReqFiles(submissions, instructions)
    /\ InitCommon

NextBatch ==
    \/ RejectRequest
    \/ FailRequest
    \/ \E i \in 1..Len(submissions) : ReadFails(i)
    \/ \E i \in 1..Len(submissions) : BeginGrading(i)
    \/ \E i \in 1..Len(submissions) : FirstCallFails(i)
    \/ \E i \in 1..Len(submissions) : FirstCallReturns(i)
    \/ \E i \in 1..Len(submissions) : RetryCallFails(i)
    \/ \E i \in 1..Len(submissions) : RetryCallReturns(i)
    \/ Respond

SpecBatch == InitBatch /\ [][NextBatch]_vars

InitConcurrent ==
    /\ mode = "concurrent"
    /\ backend = "ollama"
    /\ maxScore = DefaultMaxScore
    /\ studentName = <<>>
    /\ vIn = JUndef
    /\ pIn = NoParserInput
    /\ submissions = <<>>
    /\ instructions = "given"
    /\ iter = <<>>
    /\ files = {}
    /\ InitCommon

NextConcurrent ==
    \/ Tick
    \/ CallOllama
    \/ CallCursor
    \/ \E i \in 1..Len(inv) : OllamaFails(i)
    \/ \E i \in 1..Len(inv) : OllamaFirstReturns(i)
    \/ \E i \in 1..Len(inv) : OllamaRetryReturns(i)
    \/ \E i \in 1..Len(inv) : ExecFails(i)
    \/ \E i \in 1..Len(inv) : ExecFirstReturns(i)
    \/ \E i \in 1..Len(inv) : ExecRetryReturns(i)

SpecConcurrent == InitConcurrent /\ [][NextConcurrent]_vars
====
